---- MODULE Spec2Model ----
(***************************************************************************)
(* Cross-platform music link conversion: the matching engine of the        *)
(* backend (text normalisation, query generation, match scoring, match     *)
(* selection) as a state machine of one conversion.                        *)
(*                                                                         *)
(* Texts are sequences of one-character strings, so that the normalisers   *)
(* are computed character by character as the regular expressions of the   *)
(* source compute them.  Scores are IEEE-754 doubles in the source; here a *)
(* score is an integer: 3000 times its value, plus the distance in ulps    *)
(* from the double nearest to that value (0.3 is 900 and 0.2 + 0.1, which  *)
(* is 0.30000000000000004, is 901).                                        *)
(***************************************************************************)
EXTENDS Integers, Sequences, FiniteSets, TLC

\* an absent (undefined) string or list of strings: comparable with every
\* text, and equal to none, since the characters of a text are single
NULL == <<"undefined">>
\* an absent list of texts (item.artists)
NoArtists == <<NULL>>
\* an absent (undefined) number
NONE == -1
\* a null search item (findBestMatch returns null)
NoItem == [url |-> "none"]

(***************************************************************************)
(* Characters                                                              *)
(***************************************************************************)
\* UTF-16 code unit order of the characters used below (Array.prototype.sort
\* without a comparator orders strings by code units).
CharOrder ==
  <<"\n", " ", "!", "\"", "#", "&", "'", "(", ")", "+", ",", "-", ".", "/",
    "0", "1", "2", "3", "4", "5", "6", "7", "8", "9", ":", "?",
    "A", "B", "C", "D", "E", "F", "G", "H", "I", "J", "K", "L", "M",
    "N", "O", "P", "Q", "R", "S", "T", "U", "V", "W", "X", "Y", "Z",
    "[", "]", "_",
    "a", "b", "c", "d", "e", "f", "g", "h", "i", "j", "k", "l", "m",
    "n", "o", "p", "q", "r", "s", "t", "u", "v", "w", "x", "y", "z",
    "{", "}">>

Code(c) == CHOOSE i \in 1..Len(CharOrder) : CharOrder[i] = c

UpperChars == <<"A", "B", "C", "D", "E", "F", "G", "H", "I", "J", "K", "L", "M",
                "N", "O", "P", "Q", "R", "S", "T", "U", "V", "W", "X", "Y", "Z">>
LowerChars == <<"a", "b", "c", "d", "e", "f", "g", "h", "i", "j", "k", "l", "m",
                "n", "o", "p", "q", "r", "s", "t", "u", "v", "w", "x", "y", "z">>
Digits == {"0", "1", "2", "3", "4", "5", "6", "7", "8", "9"}

\* String.prototype.toLowerCase on one character
ToLowerChar(c) ==
  IF \E i \in 1..26 : UpperChars[i] = c
  THEN LowerChars[CHOOSE i \in 1..26 : UpperChars[i] = c]
  ELSE c

\* the regular-expression classes \s and \w
IsSpace(c) == c \in {" ", "\n", "\t"}
IsWordChar(c) ==
  \/ \E i \in 1..26 : UpperChars[i] = c \/ LowerChars[i] = c
  \/ c \in Digits
  \/ c = "_"

(***************************************************************************)
(* Strings                                                                 *)
(***************************************************************************)
\* the sequence a function on 1..n is, with its elements evaluated
AsTuple(f) == SubSeq(f, 1, Len(f))

toLowerCase(s) == AsTuple([i \in 1..Len(s) |-> ToLowerChar(s[i])])

\* s.replace(/[class]/g, ' ')
ReplaceClassBySpace(s, class) ==
  AsTuple([i \in 1..Len(s) |-> IF s[i] \in class THEN " " ELSE s[i]])

\* s.replace(/[class]/g, '')
RemoveClass(s, class) == SelectSeq(s, LAMBDA c : c \notin class)

RECURSIVE CollapseFrom(_, _)
CollapseFrom(s, i) ==
  IF i > Len(s) THEN <<>>
  ELSE IF IsSpace(s[i])
       THEN IF i > 1 /\ IsSpace(s[i - 1])
            THEN CollapseFrom(s, i + 1)
            ELSE <<" ">> \o CollapseFrom(s, i + 1)
       ELSE <<s[i]>> \o CollapseFrom(s, i + 1)

\* s.replace(/\s+/g, ' ')
CollapseSpaces(s) == CollapseFrom(s, 1)

\* String.prototype.trim
trim(s) ==
  LET keep == {i \in 1..Len(s) : ~IsSpace(s[i])}
  IN  IF keep = {} THEN <<>>
      ELSE LET lo == CHOOSE i \in keep : \A j \in keep : i <= j
               hi == CHOOSE i \in keep : \A j \in keep : i >= j
           IN  SubSeq(s, lo, hi)

\* sub occurs in s at (1-based) position i
MatchesAt(s, i, sub) ==
  /\ i >= 1
  /\ i + Len(sub) - 1 <= Len(s)
  /\ SubSeq(s, i, i + Len(sub) - 1) = sub

\* String.prototype.includes
includes(s, sub) == \E i \in 1..(Len(s) + 1) : MatchesAt(s, i, sub)

RECURSIVE SplitFrom(_, _, _, _)
SplitFrom(s, seps, i, cur) ==
  IF i > Len(s) THEN <<cur>>
  ELSE IF s[i] \in seps
       THEN <<cur>> \o SplitFrom(s, seps, i + 1, <<>>)
       ELSE SplitFrom(s, seps, i + 1, Append(cur, s[i]))

\* s.split(/[seps]/)
splitOnClass(s, seps) == SplitFrom(s, seps, 1, <<>>)

RECURSIVE join(_, _)
\* Array.prototype.join
join(parts, sep) ==
  IF Len(parts) = 0 THEN <<>>
  ELSE IF Len(parts) = 1 THEN parts[1]
  ELSE parts[1] \o sep \o join(Tail(parts), sep)

RECURSIVE StrLess(_, _)
\* a < b in code unit order
StrLess(a, b) ==
  IF Len(b) = 0 THEN FALSE
  ELSE IF Len(a) = 0 THEN TRUE
  ELSE IF a[1] = b[1] THEN StrLess(Tail(a), Tail(b))
  ELSE Code(a[1]) < Code(b[1])

RECURSIVE InsertSorted(_, _)
InsertSorted(sorted, x) ==
  IF Len(sorted) = 0 THEN <<x>>
  ELSE IF StrLess(x, sorted[1]) THEN <<x>> \o sorted
  ELSE <<sorted[1]>> \o InsertSorted(Tail(sorted), x)

RECURSIVE sortStrings(_)
\* Array.prototype.sort() on strings (stable; equal strings are identical)
sortStrings(parts) ==
  IF Len(parts) = 0 THEN <<>>
  ELSE InsertSorted(sortStrings(SubSeq(parts, 1, Len(parts) - 1)), parts[Len(parts)])

(***************************************************************************)
(* Text Normalizer (Spotify-target module)                                 *)
(***************************************************************************)
\* the ASCII part of the character class of cleanText, the grave accent
\* excepted (no string of this module contains it); the ranges U+2000-U+206F
\* and U+2E00-U+2E7F lie outside the alphabet used here
PunctClass ==
  {"\\", "'", "!", "\"", "#", "$", "%", "&", "(", ")", "*", "+", ",", "-",
   ".", "/", ":", ";", "<", "=", ">", "?", "@", "[", "]", "^", "_",
   "{", "|", "}", "~"}

QuoteClass == {"'", "\""}

cleanText(text) ==
  trim(toLowerCase(CollapseSpaces(
    RemoveClass(ReplaceClassBySpace(text, PunctClass), QuoteClass))))

Openers == {"(", "[", "{"}
Closers == {")", "]", "}"}

\* (?:feat|ft|featuring|with), in the order of the alternation
FeatKeywords ==
  << <<"f", "e", "a", "t">>,
     <<"f", "t">>,
     <<"f", "e", "a", "t", "u", "r", "i", "n", "g">>,
     <<"w", "i", "t", "h">> >>

\* least index >= from whose character is in class, 0 when there is none
FirstIn(s, from, class) ==
  LET hits == {j \in from..Len(s) : s[j] \in class}
  IN  IF hits = {} THEN 0 ELSE CHOOSE j \in hits : \A k \in hits : j <= k

\* length of the maximal run of characters satisfying class from position p
RunOutside(s, p, excl) ==
  LET stop == FirstIn(s, p, excl)
  IN  IF p > Len(s) THEN 0 ELSE IF stop = 0 THEN Len(s) - p + 1 ELSE stop - p

RunInside(s, p, class) ==
  LET bad == {j \in p..Len(s) : s[j] \notin class}
  IN  IF p > Len(s) THEN 0
      ELSE IF bad = {} THEN Len(s) - p + 1
      ELSE (CHOOSE j \in bad : \A k \in bad : j <= k) - p

\* keyword kw at position i, case-insensitive (flag i)
KwAt(s, i, kw) == MatchesAt(toLowerCase(s), i, kw)

\* position after keyword kw at i and the optional "." (\.?), given that
\* white space must follow
AfterKw(s, i, kw) ==
  LET j == i + Len(kw)
  IN  IF j <= Len(s) /\ s[j] = "." THEN j + 1 ELSE j

\* /[\(\[\{](?:feat|ft|featuring|with)\.?\s+[^\)\]\}]+[\)\]\}]/ at i with
\* keyword kw: index of the last matched character, 0 when no match
FeatParenEndKw(s, i, kw) ==
  IF ~(i <= Len(s) /\ s[i] \in Openers /\ KwAt(s, i + 1, kw)) THEN 0
  ELSE LET k == AfterKw(s, i + 1, kw)
           e == FirstIn(s, k, Closers)
       IN  IF k <= Len(s) /\ IsSpace(s[k]) /\ e >= k + 2 THEN e ELSE 0

FeatParenEnd(s, i) ==
  LET ok == {n \in 1..Len(FeatKeywords) : FeatParenEndKw(s, i, FeatKeywords[n]) > 0}
  IN  IF ok = {} THEN 0
      ELSE FeatParenEndKw(s, i, FeatKeywords[CHOOSE n \in ok : \A m \in ok : n <= m])

\* /(?:feat|ft|featuring|with)\.?\s+[^([\n]+/ at i with keyword kw
FeatBareEndKw(s, i, kw) ==
  IF ~KwAt(s, i, kw) THEN 0
  ELSE LET k == AfterKw(s, i, kw)
           w == RunInside(s, k, {" ", "\n", "\t"})
           \* \s+ takes m white-space characters, [^([\n]+ the run after them
           ms == {m \in 1..w : RunOutside(s, k + m, {"(", "[", "\n"}) >= 1}
       IN  IF ms = {} THEN 0
           ELSE LET m == CHOOSE x \in ms : \A y \in ms : x >= y
                IN  k + m + RunOutside(s, k + m, {"(", "[", "\n"}) - 1

FeatBareEnd(s, i) ==
  LET ok == {n \in 1..Len(FeatKeywords) : FeatBareEndKw(s, i, FeatKeywords[n]) > 0}
  IN  IF ok = {} THEN 0
      ELSE FeatBareEndKw(s, i, FeatKeywords[CHOOSE n \in ok : \A m \in ok : n <= m])

\* /[\(\[\{][^\)\]\}]*[\)\]\}]/ at i
ParenEnd(s, i) ==
  IF i <= Len(s) /\ s[i] \in Openers THEN FirstIn(s, i + 1, Closers) ELSE 0

RECURSIVE RemoveFeatParen(_, _)
RemoveFeatParen(s, i) ==
  IF i > Len(s) THEN <<>>
  ELSE LET e == FeatParenEnd(s, i)
       IN  IF e > 0 THEN RemoveFeatParen(s, e + 1)
           ELSE <<s[i]>> \o RemoveFeatParen(s, i + 1)

RECURSIVE RemoveFeatBare(_, _)
RemoveFeatBare(s, i) ==
  IF i > Len(s) THEN <<>>
  ELSE LET e == FeatBareEnd(s, i)
       IN  IF e > 0 THEN RemoveFeatBare(s, e + 1)
           ELSE <<s[i]>> \o RemoveFeatBare(s, i + 1)

RECURSIVE RemoveParen(_, _)
RemoveParen(s, i) ==
  IF i > Len(s) THEN <<>>
  ELSE LET e == ParenEnd(s, i)
       IN  IF e > 0 THEN RemoveParen(s, e + 1)
           ELSE <<s[i]>> \o RemoveParen(s, i + 1)

removeFeaturingArtists(text) ==
  trim(RemoveParen(RemoveFeatBare(RemoveFeatParen(text, 1), 1), 1))

RECURSIVE MapCleanNames(_)
MapCleanNames(parts) ==
  IF Len(parts) = 0 THEN <<>>
  ELSE <<cleanText(removeFeaturingArtists(parts[1]))>> \o MapCleanNames(Tail(parts))

normalizeArtistName(artist) ==
  join(sortStrings(SelectSeq(MapCleanNames(splitOnClass(artist, {",", "&"})),
                             LAMBDA n : Len(n) > 0)),
       <<" ">>)

\* (?:remaster|remix|version|edit|deluxe|anniversary|super|edition)
VersionKeywords ==
  << <<"r", "e", "m", "a", "s", "t", "e", "r">>,
     <<"r", "e", "m", "i", "x">>,
     <<"v", "e", "r", "s", "i", "o", "n">>,
     <<"e", "d", "i", "t">>,
     <<"d", "e", "l", "u", "x", "e">>,
     <<"a", "n", "n", "i", "v", "e", "r", "s", "a", "r", "y">>,
     <<"s", "u", "p", "e", "r">>,
     <<"e", "d", "i", "t", "i", "o", "n">> >>

\* /\([^)]*(?:remaster|...)[^)]*\)/gi at i: "(" up to the first ")" with a
\* keyword in between
VersionParenEnd(s, i) ==
  IF ~(i <= Len(s) /\ s[i] = "(") THEN 0
  ELSE LET e == FirstIn(s, i + 1, {")"})
       IN  IF e > 0 /\ \E n \in 1..Len(VersionKeywords) :
                         includes(toLowerCase(SubSeq(s, i + 1, e - 1)), VersionKeywords[n])
           THEN e ELSE 0

\* /\[[^]]*(?:remaster|...)[^]]*\]/gi at i with keyword kw.  In an ECMAScript
\* pattern [^] is a complete class (any character) and the "]" after it is a
\* literal, so the pattern reads: "[", any one character, "]"*, keyword, any
\* one character, "]"*, "]".
VersionBracketEndKw(s, i, kw) ==
  IF ~(i + 1 <= Len(s) /\ s[i] = "[") THEN 0
  ELSE LET a == i + 2 + RunInside(s, i + 2, {"]"})
           b == a + Len(kw)
           n2 == RunInside(s, b + 1, {"]"})
       IN  IF KwAt(s, a, kw) /\ b <= Len(s) /\ n2 >= 1 THEN b + n2 ELSE 0

VersionBracketEnd(s, i) ==
  LET ok == {n \in 1..Len(VersionKeywords) : VersionBracketEndKw(s, i, VersionKeywords[n]) > 0}
  IN  IF ok = {} THEN 0
      ELSE VersionBracketEndKw(s, i, VersionKeywords[CHOOSE n \in ok : \A m \in ok : n <= m])

\* /[\(\[]\s*\d{4}\s*[\)\]]/g at i
YearEnd(s, i) ==
  IF ~(i <= Len(s) /\ s[i] \in {"(", "["}) THEN 0
  ELSE LET d == i + 1 + RunInside(s, i + 1, {" ", "\n", "\t"})
           c == d + 4 + RunInside(s, d + 4, {" ", "\n", "\t"})
       IN  IF /\ d + 3 <= Len(s)
              /\ \A k \in d..(d + 3) : s[k] \in Digits
              /\ c <= Len(s)
              /\ s[c] \in {")", "]"}
           THEN c ELSE 0

RECURSIVE RemoveVersionParen(_, _)
RemoveVersionParen(s, i) ==
  IF i > Len(s) THEN <<>>
  ELSE LET e == VersionParenEnd(s, i)
       IN  IF e > 0 THEN RemoveVersionParen(s, e + 1)
           ELSE <<s[i]>> \o RemoveVersionParen(s, i + 1)

RECURSIVE RemoveVersionBracket(_, _)
RemoveVersionBracket(s, i) ==
  IF i > Len(s) THEN <<>>
  ELSE LET e == VersionBracketEnd(s, i)
       IN  IF e > 0 THEN RemoveVersionBracket(s, e + 1)
           ELSE <<s[i]>> \o RemoveVersionBracket(s, i + 1)

RECURSIVE RemoveYear(_, _)
RemoveYear(s, i) ==
  IF i > Len(s) THEN <<>>
  ELSE LET e == YearEnd(s, i)
       IN  IF e > 0 THEN RemoveYear(s, e + 1)
           ELSE <<s[i]>> \o RemoveYear(s, i + 1)

stripVersionInfo(title) ==
  trim(RemoveYear(RemoveVersionBracket(RemoveVersionParen(title, 1), 1), 1))

TributeIndicators ==
  { <<"t", "r", "i", "b", "u", "t", "e">>,
    <<"c", "o", "v", "e", "r", "s">>,
    <<"p", "e", "r", "f", "o", "r", "m", "s">>,
    <<"p", "l", "a", "y", "s">>,
    <<"k", "a", "r", "a", "o", "k", "e">>,
    <<"i", "n", " ", "t", "h", "e", " ", "s", "t", "y", "l", "e", " ", "o", "f">>,
    <<"u", "k", "u", "l", "e", "l", "e">>,
    <<"i", "n", "s", "t", "r", "u", "m", "e", "n", "t", "a", "l">>,
    <<"o", "r", "c", "h", "e", "s", "t", "r", "a">>,
    <<"s", "t", "r", "i", "n", "g", " ", "q", "u", "a", "r", "t", "e", "t">>,
    <<"l", "u", "l", "l", "a", "b", "y">>,
    <<"p", "i", "a", "n", "o", " ", "v", "e", "r", "s", "i", "o", "n">>,
    <<"j", "a", "z", "z", " ", "v", "e", "r", "s", "i", "o", "n">> }

isTributeBand(artistName, originalArtist) ==
  LET lowerArtist == toLowerCase(artistName)
      lowerOriginal == toLowerCase(originalArtist)
  IN  IF lowerArtist = lowerOriginal THEN FALSE
      ELSE \/ includes(lowerArtist, lowerOriginal)
           \/ \E indicator \in TributeIndicators : includes(lowerArtist, indicator)

(***************************************************************************)
(* Query Generator (Spotify-target module)                                 *)
(***************************************************************************)
\* JavaScript truthiness of an optional string / an optional number
TruthyStr(x) == x # NULL /\ x # <<>>
TruthyNum(x) == x # NONE /\ x # 0

QUOTE == <<"\"">>
SPACE == <<" ">>
LitArtistQ == <<"a", "r", "t", "i", "s", "t", ":", "\"">>
LitTrackQ == <<"t", "r", "a", "c", "k", ":", "\"">>
LitQArtistQ == <<"\"", " ", "a", "r", "t", "i", "s", "t", ":", "\"">>
LitQAlbumQ == <<"\"", " ", "a", "l", "b", "u", "m", ":", "\"">>
LitIsrc == <<"i", "s", "r", "c", ":">>

NumberWords ==
  << <<"z", "e", "r", "o">>,
     <<"o", "n", "e">>,
     <<"t", "w", "o">>,
     <<"t", "h", "r", "e", "e">>,
     <<"f", "o", "u", "r">>,
     <<"f", "i", "v", "e">>,
     <<"s", "i", "x">>,
     <<"s", "e", "v", "e", "n">>,
     <<"e", "i", "g", "h", "t">>,
     <<"n", "i", "n", "e">>,
     <<"t", "e", "n">>,
     <<"e", "l", "e", "v", "e", "n">>,
     <<"t", "w", "e", "l", "v", "e">>,
     <<"t", "h", "i", "r", "t", "e", "e", "n">>,
     <<"f", "o", "u", "r", "t", "e", "e", "n">>,
     <<"f", "i", "f", "t", "e", "e", "n">>,
     <<"s", "i", "x", "t", "e", "e", "n">>,
     <<"s", "e", "v", "e", "n", "t", "e", "e", "n">>,
     <<"e", "i", "g", "h", "t", "e", "e", "n">>,
     <<"n", "i", "n", "e", "t", "e", "e", "n">>,
     <<"t", "w", "e", "n", "t", "y">> >>

DigitValue(c) == CHOOSE v \in 0..9 : <<"0", "1", "2", "3", "4", "5", "6", "7", "8", "9">>[v + 1] = c

RECURSIVE ParseIntCapped(_, _)
\* parseInt of a run of digits, saturated at 21 (only num <= 20 is tested)
ParseIntCapped(ds, acc) ==
  IF Len(ds) = 0 THEN acc
  ELSE LET v == acc * 10 + DigitValue(ds[1])
       IN  ParseIntCapped(Tail(ds), IF v > 20 THEN 21 ELSE v)

RECURSIVE NumbersToWords(_, _)
\* .replace(/(\d+)/g, match => num <= 20 ? words[num] : match)
NumbersToWords(s, i) ==
  IF i > Len(s) THEN <<>>
  ELSE IF s[i] \in Digits
       THEN LET n == RunInside(s, i, Digits)
                run == SubSeq(s, i, i + n - 1)
                num == ParseIntCapped(run, 0)
            IN  (IF num <= 20 THEN NumberWords[num + 1] ELSE run)
                  \o NumbersToWords(s, i + n)
       ELSE <<s[i]>> \o NumbersToWords(s, i + 1)

\* title.replace(/[^\w\s]/g, '')
KeepWordAndSpace(s) == SelectSeq(s, LAMBDA c : IsWordChar(c) \/ IsSpace(c))

generateSearchQueries(metadata) ==
  LET artistQueries(artist) == << LitArtistQ \o artist \o QUOTE, artist >>
      trackQueries(title, cleanTitle, artist, strippedTitle, cleanAlbum,
                   strippedAlbum, numericTitle) ==
        (IF TruthyStr(metadata.isrc) THEN << LitIsrc \o metadata.isrc >> ELSE <<>>)
        \o << LitTrackQ \o title \o LitQArtistQ \o artist \o QUOTE >>
        \o (IF cleanTitle # title
            THEN << LitTrackQ \o cleanTitle \o LitQArtistQ \o artist \o QUOTE >>
            ELSE <<>>)
        \o (IF strippedTitle # cleanTitle
            THEN << LitTrackQ \o strippedTitle \o LitQArtistQ \o artist \o QUOTE >>
            ELSE <<>>)
        \o (IF TruthyStr(metadata.album)
            THEN << LitTrackQ \o cleanTitle \o LitQAlbumQ \o cleanAlbum \o QUOTE >>
                 \o (IF strippedAlbum # cleanAlbum
                     THEN << LitTrackQ \o strippedTitle \o LitQAlbumQ \o strippedAlbum \o QUOTE >>
                     ELSE <<>>)
            ELSE <<>>)
        \o << strippedTitle \o SPACE \o artist >>
        \o (IF numericTitle # title
            THEN << LitTrackQ \o numericTitle \o LitQArtistQ \o artist \o QUOTE >>
            ELSE <<>>)
      stripped(title, cleanTitle, artist, cleanAlbum) ==
        trackQueries(title, cleanTitle, artist, stripVersionInfo(cleanTitle), cleanAlbum,
                     stripVersionInfo(cleanAlbum),
                     NumbersToWords(KeepWordAndSpace(title), 1))
      cleaned(title) ==
        stripped(title, removeFeaturingArtists(title),
                 normalizeArtistName(metadata.artist), cleanText(metadata.album))
  IN  IF metadata.type = "artist"
      THEN artistQueries(cleanText(metadata.artist))
      ELSE cleaned(cleanText(metadata.title))

(***************************************************************************)
(* JavaScript numbers.  A score x stands for the double 3000 * value, the  *)
(* last decimal digit being the distance in ulps from the double nearest   *)
(* to the exact multiple of 1/300: 0.3 is 900, 0.2 + 0.1 is 901.           *)
(***************************************************************************)
\* the double nearest to h/100
Hundredths(h) == 30 * h
\* the multiple of 1/300 a score stands for
Exact(x) == (x + 5) \div 10

\* IEEE-754 binary64 x + y on the sums the scorers form: the double nearest
\* to the exact sum, except where listed
JSAddTable ==
  [p \in Nat \X Nat |->
     CASE p[1] = 0 -> p[2]
       [] p[2] = 0 -> p[1]
       [] p[1] = 61 /\ p[2] = 300 -> 361   \* 0.020000000000000004 + 0.1 = 0.12000000000000001
       [] p[1] = 150 /\ p[2] = 300 -> 451   \* 0.05 + 0.1 = 0.15000000000000002
       [] p[1] = 182 /\ p[2] = 300 -> 481   \* 0.06000000000000001 + 0.1 = 0.16000000000000003
       [] p[1] = 209 /\ p[2] = 300 -> 509   \* 0.06999999999999999 + 0.1 = 0.16999999999999998
       [] p[1] = 241 /\ p[2] = 300 -> 541   \* 0.08000000000000002 + 0.1 = 0.18000000000000002
       [] p[1] = 361 /\ p[2] = 300 -> 661   \* 0.12000000000000001 + 0.1 = 0.22000000000000003
       [] p[1] = 420 /\ p[2] = 300 -> 721   \* 0.14 + 0.1 = 0.24000000000000002
       [] p[1] = 600 /\ p[2] = 300 -> 901   \* 0.2 + 0.1 = 0.30000000000000004
       [] p[1] = 600 /\ p[2] = 1200 -> 1801   \* 0.2 + 0.4 = 0.6000000000000001
       [] p[1] = 1200 /\ p[2] = 121 -> 1321   \* 0.4 + 0.04000000000000001 = 0.44000000000000006
       [] p[1] = 1200 /\ p[2] = 241 -> 1441   \* 0.4 + 0.08000000000000002 = 0.48000000000000004
       [] p[1] = 1200 /\ p[2] = 600 -> 1801   \* 0.4 + 0.2 = 0.6000000000000001
       [] p[1] = 1801 /\ p[2] = 300 -> 2101   \* 0.6000000000000001 + 0.1 = 0.7000000000000001
       [] p[1] = 2100 /\ p[2] = 300 -> 2399   \* 0.7 + 0.1 = 0.7999999999999999
       [] p[1] = 2100 /\ p[2] = 600 -> 2699   \* 0.7 + 0.2 = 0.8999999999999999
       [] p[1] = 2399 /\ p[2] = 300 -> 2699   \* 0.7999999999999999 + 0.1 = 0.8999999999999999
       [] p[1] = 2400 /\ p[2] = 121 -> 2521   \* 0.8 + 0.04000000000000001 = 0.8400000000000001
       [] p[1] = 2400 /\ p[2] = 150 -> 2551   \* 0.8 + 0.05 = 0.8500000000000001
       [] p[1] = 2400 /\ p[2] = 241 -> 2641   \* 0.8 + 0.08000000000000002 = 0.8800000000000001
       [] p[1] = 2400 /\ p[2] = 451 -> 2851   \* 0.8 + 0.15000000000000002 = 0.9500000000000001
       [] p[1] = 2400 /\ p[2] = 481 -> 2881   \* 0.8 + 0.16000000000000003 = 0.9600000000000001
       [] p[1] = 2100 /\ p[2] = 600 -> 2699   \* 0.7 + 0.2 = 0.8999999999999999
       [] p[1] = 2400 /\ p[2] = 501 -> 2901   \* 0.8 + 0.16666666666666669 = 0.9666666666666668
       [] OTHER -> 10 * (Exact(p[1]) + Exact(p[2]))]

JSAdd(x, y) == JSAddTable[<<x, y>>]

\* IEEE-754 binary64 x * 0.1 on the values the scorers penalise
JSTimesTenthTable ==
  [x \in Nat |->
     CASE x = 0 -> 0
       [] x = 600 -> 61   \* 0.2 * 0.1 = 0.020000000000000004
       [] x = 1200 -> 121   \* 0.4 * 0.1 = 0.04000000000000001
       [] x = 1801 -> 182   \* 0.6000000000000001 * 0.1 = 0.06000000000000001
       [] x = 2100 -> 209   \* 0.7 * 0.1 = 0.06999999999999999
       [] x = 2400 -> 241   \* 0.8 * 0.1 = 0.08000000000000002
       [] OTHER -> 10 * (Exact(x) \div 10)]

JSTimesTenth(x) == JSTimesTenthTable[x]

\* IEEE-754 binary64 0.2 * (c / m), 1 <= c <= m <= 6
JSGenreShareTable ==
  [p \in Nat \X Nat |->
     CASE p[1] = 0 -> 0
       [] p[1] = 1 /\ p[2] = 5 -> 121   \* 0.2 * (1 / 5) = 0.04000000000000001
       [] p[1] = 2 /\ p[2] = 5 -> 241   \* 0.2 * (2 / 5) = 0.08000000000000002
       [] p[1] = 3 /\ p[2] = 4 -> 451   \* 0.2 * (3 / 4) = 0.15000000000000002
       [] p[1] = 4 /\ p[2] = 5 -> 481   \* 0.2 * (4 / 5) = 0.16000000000000003
       [] p[1] = 5 /\ p[2] = 6 -> 501   \* 0.2 * (5 / 6) = 0.16666666666666669
       [] OTHER -> 10 * ((60 * p[1]) \div p[2])]

JSGenreShare(c, m) == JSGenreShareTable[<<c, m>>]

(***************************************************************************)
(* Match Scorer (Spotify-target module)                                    *)
(***************************************************************************)
RECURSIVE CountIn(_, _)
\* list.filter(g => other.includes(g)).length
CountIn(list, other) ==
  IF Len(list) = 0 THEN 0
  ELSE (IF \E k \in 1..Len(other) : other[k] = list[1] THEN 1 ELSE 0)
       + CountIn(Tail(list), other)

\* item.artists?.map(a => a.name).join(' ') || ''
ArtistNamesJoined(item) ==
  IF item.artists = NoArtists THEN <<>> ELSE join(item.artists, SPACE)

\* item.artists?.some(a => isTributeBand(a.name, sourceMetadata.artist))
AnyTributeArtist(item, metadata) ==
  /\ item.artists # NoArtists
  /\ \E k \in 1..Len(item.artists) : isTributeBand(item.artists[k], metadata.artist)

\* Math.abs(spotifyItem.duration_ms - sourceMetadata.duration) < 2000
DurationClose(a, b) == (IF a >= b THEN a - b ELSE b - a) < 2000

\* score *= 0.1 when the candidate is flagged
PenaltyTable ==
  [p \in Nat \X BOOLEAN |-> IF p[2] THEN JSTimesTenth(p[1]) ELSE p[1]]

\* the penalty applied whether or not the candidate is flagged
PenalisedAlways(score, flagged) == JSTimesTenth(score)

\* no penalty at all
Unpenalised(score, flagged) == score

Penalised(score, flagged) == PenaltyTable[<<score, flagged>>]

\* the track/album branch of calculateMatchScore; flagged: the value of
\* spotifyItem.artists?.some(a => isTributeBand(a.name, sourceMetadata.artist))
TrackOrAlbumScore(spotifyItem, metadata, flagged) ==
  LET titleMatch(spotifyTitle, sourceTitle) ==
        IF spotifyTitle = sourceTitle THEN Hundredths(40)
        ELSE IF removeFeaturingArtists(spotifyTitle) = removeFeaturingArtists(sourceTitle)
             THEN Hundredths(30)
             ELSE IF includes(spotifyTitle, sourceTitle) \/ includes(sourceTitle, spotifyTitle)
                  THEN Hundredths(20)
                  ELSE 0
      artistMatch(spotifyArtist, sourceArtist) ==
        IF spotifyArtist = sourceArtist THEN Hundredths(40)
        ELSE IF includes(spotifyArtist, sourceArtist) \/ includes(sourceArtist, spotifyArtist)
             THEN Hundredths(20)
             ELSE 0
      durationBonus == IF /\ TruthyNum(metadata.duration)
                          /\ spotifyItem.duration_ms # NONE
                          /\ DurationClose(spotifyItem.duration_ms, metadata.duration)
                       THEN Hundredths(10) ELSE 0
      albumBonus == IF /\ TruthyStr(metadata.album)
                       /\ spotifyItem.album # NULL
                       /\ cleanText(spotifyItem.album) = cleanText(metadata.album)
                    THEN Hundredths(10) ELSE 0
  IN  JSAdd(JSAdd(Penalised(JSAdd(JSAdd(0, titleMatch(cleanText(spotifyItem.name),
                                                      cleanText(metadata.title))),
                                  artistMatch(normalizeArtistName(ArtistNamesJoined(spotifyItem)),
                                              normalizeArtistName(metadata.artist))),
                            flagged),
                  durationBonus),
            albumBonus)

\* each "score += w" of the source is one JSAdd; a branch not taken adds 0
calculateMatchScore(spotifyItem, metadata) ==
  IF metadata.type = "artist"
  THEN
    LET nameMatch(spotifyName, sourceName) ==
          IF spotifyName = sourceName THEN Hundredths(100)
          ELSE IF includes(spotifyName, sourceName) \/ includes(sourceName, spotifyName)
               THEN Hundredths(70)
               ELSE 0
        genreBonus == IF /\ spotifyItem.genres # NULL
                         /\ metadata.genres # NULL
                         /\ CountIn(spotifyItem.genres, metadata.genres) > 0
                      THEN Hundredths(20) ELSE 0
    IN  Penalised(JSAdd(JSAdd(0, nameMatch(cleanText(spotifyItem.name),
                                           cleanText(metadata.artist))),
                        genreBonus),
                  isTributeBand(cleanText(spotifyItem.name), cleanText(metadata.artist)))
  ELSE TrackOrAlbumScore(spotifyItem, metadata, AnyTributeArtist(spotifyItem, metadata))

(***************************************************************************)
(* Match Selector (Spotify-target module)                                  *)
(***************************************************************************)
\* item.popularity || 0
PopularityOf(item) == IF item.popularity = NONE THEN 0 ELSE item.popularity

\* item.artists?.some(a => cleanText(a.name) === cleanText(sourceMetadata.artist))
IsOriginalArtist(item, metadata) ==
  /\ item.artists # NoArtists
  /\ \E k \in 1..Len(item.artists) :
       cleanText(item.artists[k]) = cleanText(metadata.artist)

\* items.map(item => ({ item, score, finalScore })); finalScore is kept as its
\* operands score, (isOriginalArtist ? 2.0 : 1.0) and popularity
ScoredItems(list, metadata) ==
  AsTuple([i \in 1..Len(list) |->
     [item |-> list[i],
      score |-> calculateMatchScore(list[i], metadata),
      original |-> IsOriginalArtist(list[i], metadata),
      popularity |-> PopularityOf(list[i])]])

\* score * (isOriginalArtist ? 2.0 : 1.0) * (1 + popularity / 1000), exactly,
\* in units of 1/300000
FinalScoreExact(s) ==
  Exact(s.score) * (IF s.original THEN 2 ELSE 1) * (1000 + s.popularity)

\* two finalScore doubles are certainly equal: same operands, or both zero
FinalScoreSame(s, t) ==
  \/ s.score = t.score /\ s.original = t.original /\ s.popularity = t.popularity
  \/ s.score = 0 /\ t.score = 0

\* scored.sort((a, b) => b.finalScore - a.finalScore): the orders a stable
\* descending sort can produce.  The rounding of the two multiplications
\* keeps every strict order of the exact products and decides the order of
\* exactly equal products of different operands, so both orders are kept.
FinalScoreOrders(scoredItems) ==
  {p \in Permutations(1..Len(scoredItems)) :
     \A a, b \in 1..Len(scoredItems) :
       a < b => /\ FinalScoreExact(scoredItems[p[a]]) >= FinalScoreExact(scoredItems[p[b]])
                /\ FinalScoreSame(scoredItems[p[a]], scoredItems[p[b]]) => p[a] < p[b]}

VeryGoodScore == Hundredths(80)
DecentScore == Hundredths(50)
MinimumScore == Hundredths(30)

\* the first decent match, popularity ignored
FirstOfList(list) == list[1]

\* decentMatches.sort((a, b) => b.popularity - a.popularity)[0]: the first of
\* the most popular ones (the sort is stable)
MostPopularFirst(list) ==
  list[CHOOSE i \in 1..Len(list) :
         /\ \A j \in 1..Len(list) : list[j].popularity <= list[i].popularity
         /\ \A j \in 1..(i - 1) : list[j].popularity < list[i].popularity]

\* the last item of the response
LastOfList(list, metadata, order) == list[Len(list)]

\* order: the permutation the sort by finalScore applies (see FinalScoreOrders)
findBestMatch(list, metadata, order) ==
  IF TruthyStr(metadata.isrc) THEN list[1]
  ELSE
    LET sorted(unsorted) == AsTuple([k \in 1..Len(list) |-> unsorted[order[k]]])
        decent(scoredItems) == SelectSeq(scoredItems, LAMBDA s : s.score > DecentScore)
        originals(decentMatches) == SelectSeq(decentMatches, LAMBDA s : s.original)
        amongDecent(decentMatches, originalArtistMatches) ==
          IF Len(originalArtistMatches) > 0
          THEN originalArtistMatches[1].item
          ELSE MostPopularFirst(decentMatches).item
        select(scoredItems, decentMatches) ==
          IF scoredItems[1].score > VeryGoodScore THEN scoredItems[1].item
          ELSE IF Len(decentMatches) > 0
               THEN amongDecent(decentMatches, originals(decentMatches))
               ELSE IF scoredItems[1].score > MinimumScore THEN scoredItems[1].item ELSE NoItem
        best(scoredItems) == select(scoredItems, decent(scoredItems))
    IN  best(sorted(ScoredItems(list, metadata)))

\* the permutations findBestMatch can sort with
SortChoices(list, metadata) ==
  IF TruthyStr(metadata.isrc) THEN {[k \in 1..Len(list) |-> k]}
  ELSE FinalScoreOrders(ScoredItems(list, metadata))

\* spotifyItem.artists?.map(a => a.name).join(', ')
ArtistNamesListed(item) ==
  IF item.artists = NoArtists THEN NULL ELSE join(item.artists, <<",", " ">>)

\* the mapping with the ISRC of the source copied to the match
mapSpotifyWithSourceIsrc(spotifyItem, metadata) ==
  [url |-> spotifyItem.url,
   metadata |->
     [type |-> metadata.type, title |-> spotifyItem.name,
      artist |-> IF metadata.type = "artist" THEN spotifyItem.name
                 ELSE ArtistNamesListed(spotifyItem),
      album |-> IF metadata.type = "artist" THEN NULL ELSE spotifyItem.album,
      isrc |-> metadata.isrc,
      duration |-> IF metadata.type = "artist" THEN NONE ELSE spotifyItem.duration_ms,
      genres |-> spotifyItem.genres, popularity |-> spotifyItem.popularity]]

mapSpotifyResponse(spotifyItem, metadata) ==
  [url |-> spotifyItem.url,
   metadata |->
     IF metadata.type = "artist"
     THEN [type |-> metadata.type, title |-> spotifyItem.name,
           artist |-> spotifyItem.name, album |-> NULL, isrc |-> NULL,
           duration |-> NONE, genres |-> spotifyItem.genres,
           popularity |-> spotifyItem.popularity]
     ELSE [type |-> metadata.type, title |-> spotifyItem.name,
           artist |-> ArtistNamesListed(spotifyItem), album |-> spotifyItem.album,
           isrc |-> NULL, duration |-> spotifyItem.duration_ms,
           genres |-> spotifyItem.genres, popularity |-> spotifyItem.popularity]]

(***************************************************************************)
(* Text Normalizer (Apple-Music-target module)                             *)
(***************************************************************************)
RECURSIVE ReplaceSpaced(_, _, _, _)
\* s.replace(/\s*c\s*/g, rep), from position i
ReplaceSpaced(s, c, rep, i) ==
  IF i > Len(s) THEN <<>>
  ELSE LET w == RunInside(s, i, {" ", "\n", "\t"})
           k == i + w
       IN  IF k <= Len(s) /\ s[k] = c
           THEN rep \o ReplaceSpaced(s, c, rep, k + 1 + RunInside(s, k + 1, {" ", "\n", "\t"}))
           ELSE <<s[i]>> \o ReplaceSpaced(s, c, rep, i + 1)

RECURSIVE ReplaceAll(_, _, _, _)
\* s.replace(/pat/g, rep) for a literal pat, from position i
ReplaceAll(s, pat, rep, i) ==
  IF i > Len(s) THEN <<>>
  ELSE IF MatchesAt(s, i, pat) THEN rep \o ReplaceAll(s, pat, rep, i + Len(pat))
  ELSE <<s[i]>> \o ReplaceAll(s, pat, rep, i + 1)

LitAnd == <<" ", "a", "n", "d", " ">>
LitAmp == <<" ", "&", " ">>
LitComma == <<",", " ">>

\* the ASCII part of the character class of the Apple cleanText (the grave
\* accent excepted); U+2000-U+206F and U+2E7F lie outside the alphabet
ApplePunctClass ==
  {"\\", "'", "!", "\"", "#", "$", "%", "&", "(", ")", "*", "+", ",", "-",
   ".", "/", ":", ";", "<", "=", ">", "?", "@", "[", "]", "^", "_",
   "{", "|", "}", "~"}

appleCleanText(text) ==
  trim(toLowerCase(
    ReplaceSpaced(
      ReplaceSpaced(
        CollapseSpaces(RemoveClass(ReplaceClassBySpace(text, ApplePunctClass), QuoteClass)),
        "&", LitAnd, 1),
      ",", LitAnd, 1)))

\* title.replace(/[^\w\s]/g, ' ')
PunctToSpace(s) ==
  AsTuple([i \in 1..Len(s) |-> IF IsWordChar(s[i]) \/ IsSpace(s[i]) THEN s[i] ELSE " "])

normalizeTitle(title) ==
  trim(CollapseSpaces(PunctToSpace(
    RemoveParen(
      ReplaceSpaced(RemoveClass(toLowerCase(title), QuoteClass), "&", LitAnd, 1),
      1))))

appleRemoveFeaturingArtists(text) ==
  trim(RemoveParen(RemoveFeatBare(RemoveFeatParen(text, 1), 1), 1))

RECURSIVE SplitAndComma(_, _, _)
\* s.split(/ and |, /), from position i with the current piece cur
SplitAndComma(s, i, cur) ==
  IF i > Len(s) THEN <<cur>>
  ELSE IF MatchesAt(s, i, LitAnd) THEN <<cur>> \o SplitAndComma(s, i + Len(LitAnd), <<>>)
  ELSE IF MatchesAt(s, i, LitComma) THEN <<cur>> \o SplitAndComma(s, i + Len(LitComma), <<>>)
  ELSE SplitAndComma(s, i + 1, Append(cur, s[i]))

\* [artist, artist.replace(/ and /g, ' & '), artist.replace(/ and /g, ', '),
\*  artist.split(/ and |, /).join(' ')]
ArtistVariations(artist) ==
  << artist,
     ReplaceAll(artist, LitAnd, LitAmp, 1),
     ReplaceAll(artist, LitAnd, LitComma, 1),
     join(SplitAndComma(artist, 1, <<>>), SPACE) >>

(***************************************************************************)
(* Query Generator (Apple-Music-target module)                             *)
(***************************************************************************)
RECURSIVE Dedupe(_, _)
\* [...new Set(queries)]: first occurrences, in insertion order
Dedupe(pushed, seen) ==
  IF Len(pushed) = 0 THEN <<>>
  ELSE IF pushed[1] \in seen THEN Dedupe(Tail(pushed), seen)
  ELSE <<pushed[1]>> \o Dedupe(Tail(pushed), seen \cup {pushed[1]})

\* the queries pushed, before the duplicates are removed
ApplePushedQueries(metadata) ==
  LET pushed(title, cleanTitle, artist, artistVariations, individualArtists) ==
        CASE metadata.type = "track" ->
               [k \in 1..4 |-> QUOTE \o title \o QUOTE \o SPACE \o QUOTE \o artistVariations[k] \o QUOTE]
               \o [k \in 1..4 |-> title \o SPACE \o artistVariations[k]]
               \o (IF cleanTitle # title
                   THEN [k \in 1..4 |-> cleanTitle \o SPACE \o artistVariations[k]]
                   ELSE <<>>)
               \o (IF TruthyStr(metadata.album)
                   THEN << cleanTitle \o SPACE \o artist \o SPACE \o appleCleanText(metadata.album) >>
                   ELSE <<>>)
               \o (IF TruthyStr(metadata.isrc) THEN << metadata.isrc >> ELSE <<>>)
               \o (IF Len(individualArtists) > 1
                   THEN << title \o SPACE \o individualArtists[1] >>
                   ELSE <<>>)
          [] metadata.type = "album" ->
               [k \in 1..8 |->
                  IF k % 2 = 1
                  THEN QUOTE \o title \o QUOTE \o SPACE \o QUOTE \o artistVariations[(k + 1) \div 2] \o QUOTE
                  ELSE title \o SPACE \o artistVariations[k \div 2]]
          [] metadata.type = "artist" ->
               [k \in 1..8 |->
                  IF k % 2 = 1
                  THEN QUOTE \o artistVariations[(k + 1) \div 2] \o QUOTE
                  ELSE artistVariations[k \div 2]]
          [] OTHER -> <<>>
      cleaned(title, artist) ==
        pushed(title, appleRemoveFeaturingArtists(title), artist,
               ArtistVariations(artist), SplitAndComma(artist, 1, <<>>))
  IN  cleaned(appleCleanText(metadata.title), appleCleanText(metadata.artist))

\* the queries as pushed, duplicates kept
QueriesWithDuplicates(metadata) == ApplePushedQueries(metadata)

appleGenerateSearchQueries(metadata) == Dedupe(ApplePushedQueries(metadata), {})

(***************************************************************************)
(* Match Scorer (Apple-Music-target module)                                *)
(***************************************************************************)
Max(a, b) == IF a >= b THEN a ELSE b

\* resultArtistVariations.some(v1 => sourceArtistVariations.some(v2 => v1 === v2))
SomeVariationEqual(rv, sv) ==
  \E a \in 1..Len(rv), b \in 1..Len(sv) : rv[a] = sv[b]

\* ... some(v2 => v1.includes(v2) || v2.includes(v1))
SomeVariationIncludes(rv, sv) ==
  \E a \in 1..Len(rv), b \in 1..Len(sv) : includes(rv[a], sv[b]) \/ includes(sv[b], rv[a])

\* result: the attributes of one Apple Music search result and its type
appleCalculateMatchScore(result, metadata) ==
  LET trackTitleMatch(resultTitle, sourceTitle) ==
        IF resultTitle = sourceTitle THEN Hundredths(40)
        ELSE IF appleRemoveFeaturingArtists(resultTitle)
                  = appleRemoveFeaturingArtists(sourceTitle)
             THEN Hundredths(40)
             ELSE IF includes(resultTitle, sourceTitle) \/ includes(sourceTitle, resultTitle)
                  THEN Hundredths(20)
                  ELSE 0
      variationMatch(resultArtistVariations, sourceArtistVariations) ==
        IF SomeVariationEqual(resultArtistVariations, sourceArtistVariations)
        THEN Hundredths(40)
        ELSE IF SomeVariationIncludes(resultArtistVariations, sourceArtistVariations)
             THEN Hundredths(20)
             ELSE 0
      trackArtistMatch(resultArtist, sourceArtist) ==
        IF resultArtist = sourceArtist THEN Hundredths(40)
        ELSE variationMatch(ArtistVariations(resultArtist), ArtistVariations(sourceArtist))
      albumMatch == IF /\ TruthyStr(metadata.album)
                       /\ TruthyStr(result.albumName)
                       /\ appleCleanText(result.albumName) = appleCleanText(metadata.album)
                    THEN Hundredths(10) ELSE 0
      isrcMatch == IF TruthyStr(metadata.isrc) /\ metadata.isrc = result.isrc
                   THEN Hundredths(10) ELSE 0
      albumTitleMatch(albumTitle, sourceAlbumTitle) ==
        IF albumTitle = sourceAlbumTitle THEN Hundredths(50)
        ELSE IF appleRemoveFeaturingArtists(albumTitle)
                  = appleRemoveFeaturingArtists(sourceAlbumTitle)
             THEN Hundredths(40)
             ELSE IF includes(albumTitle, sourceAlbumTitle) \/ includes(sourceAlbumTitle, albumTitle)
                  THEN Hundredths(30)
                  ELSE 0
      albumArtistMatch(albumArtist, sourceAlbumArtist) ==
        IF albumArtist = sourceAlbumArtist THEN Hundredths(50)
        ELSE IF includes(albumArtist, sourceAlbumArtist) \/ includes(sourceAlbumArtist, albumArtist)
             THEN Hundredths(30)
             ELSE 0
      nameMatch(artistName, sourceArtistName) ==
        IF artistName = sourceArtistName THEN Hundredths(80)
        ELSE IF includes(artistName, sourceArtistName) \/ includes(sourceArtistName, artistName)
             THEN Hundredths(40)
             ELSE 0
      genreShare(matchingGenres) ==
        IF matchingGenres > 0
        THEN JSGenreShare(matchingGenres, Max(Len(result.genreNames), Len(metadata.genres)))
        ELSE 0
      genreMatch == IF result.genreNames # NULL /\ metadata.genres # NULL
                    THEN genreShare(CountIn(result.genreNames, metadata.genres))
                    ELSE 0
  IN  CASE metadata.type = "track" ->
             JSAdd(JSAdd(JSAdd(JSAdd(0, trackTitleMatch(normalizeTitle(result.name),
                                                        normalizeTitle(metadata.title))),
                               trackArtistMatch(appleCleanText(result.artistName),
                                                appleCleanText(metadata.artist))),
                         albumMatch),
                   isrcMatch)
        [] metadata.type = "album" ->
             JSAdd(JSAdd(0, albumTitleMatch(appleCleanText(result.name),
                                            appleCleanText(metadata.title))),
                   albumArtistMatch(appleCleanText(result.artistName),
                                    appleCleanText(metadata.artist)))
        [] metadata.type = "artist" ->
             JSAdd(JSAdd(0, nameMatch(appleCleanText(result.name),
                                      appleCleanText(metadata.artist))),
                   genreMatch)
        [] OTHER -> 0

mapAppleMusicResponse(result) ==
  LET type == IF result.type = "songs" THEN "track"
              ELSE IF result.type = "albums" THEN "album" ELSE "artist"
  IN  [type |-> type, title |-> result.name, artist |-> result.artistName,
       album |-> IF type = "track" THEN result.albumName ELSE NULL,
       isrc |-> IF type = "track" THEN result.isrc ELSE NULL,
       duration |-> IF type = "track" THEN result.durationInMillis ELSE NONE,
       genres |-> result.genreNames,
       popularity |-> NONE]

(***************************************************************************)
(* Credentials (getSecret, getSpotifyAccessToken, getAppleMusicToken)      *)
(***************************************************************************)
SpotifyCredentialNames == <<"spotify-client-id", "spotify-client-secret">>
AppleCredentialNames == <<"apple-team-id", "apple-key-id", "apple-private-key">>

CredentialNames(platform) ==
  IF platform = "spotify" THEN SpotifyCredentialNames ELSE AppleCredentialNames

Range(f) == {f[k] : k \in DOMAIN f}

\* the process environment and the secret store of one deployment: NODE_ENV,
\* the credential variables that are set, the secrets the store can deliver
Environments(platform) ==
  [production : BOOLEAN,
   vars : SUBSET Range(CredentialNames(platform)),
   secrets : SUBSET Range(CredentialNames(platform))]

\* getSecret(secretName): undefined outside production, the value of the
\* secret, or the error 'Failed to retrieve secret ...'
getSecret(environment, secretName) ==
  IF ~environment.production THEN "undefined"
  ELSE IF secretName \in environment.secrets THEN "value" ELSE "throws"

\* process.env.X || await getSecret(x)
SpotifyCredential(environment, name) ==
  IF name \in environment.vars THEN "value" ELSE getSecret(environment, name)

\* await getSecret(x) || process.env.X
AppleCredential(environment, name) ==
  IF getSecret(environment, name) # "undefined" THEN getSecret(environment, name)
  ELSE IF name \in environment.vars THEN "value" ELSE "undefined"

Credential(platform, environment, name) ==
  IF platform = "spotify" THEN SpotifyCredential(environment, name)
  ELSE AppleCredential(environment, name)

\* the test with && in the place of ||
AllCredentialsAbsent(platform, environment) ==
  \A k \in DOMAIN CredentialNames(platform) :
     Credential(platform, environment, CredentialNames(platform)[k]) = "undefined"

\* !clientId || !clientSecret, !teamId || !keyId || !privateKey
CredentialsIncomplete(platform, environment) ==
  \E k \in DOMAIN CredentialNames(platform) :
     Credential(platform, environment, CredentialNames(platform)[k]) = "undefined"

\* how the acquisition of the token ends before any request is made:
\* "ok", or the error thrown
AcquireCredentials(platform, environment) ==
  IF \E k \in DOMAIN CredentialNames(platform) :
        Credential(platform, environment, CredentialNames(platform)[k]) = "throws"
  THEN "secretFailed"
  ELSE IF CredentialsIncomplete(platform, environment) THEN "credentialsMissing"
  ELSE "ok"

(***************************************************************************)
(* Inputs: the source metadata of a conversion and the target catalogs     *)
(***************************************************************************)
\* greatest number of items one search response carries
MaxItems == 2

TitleT == <<"X", "y">>
ArtistA == <<"A", "b">>
ArtistATribute == <<"A", "b", " ", "T", "r", "i", "b", "u", "t", "e">>
AlbumL == <<"A", "l">>
IsrcCode == <<"U", "S", "1">>

\* a track with title T and artist A, without and with a known ISRC
SourcePlain ==
  [type |-> "track", title |-> TitleT, artist |-> ArtistA, album |-> AlbumL,
   isrc |-> NULL, duration |-> 200000, genres |-> NULL]
SourceIsrc == [SourcePlain EXCEPT !.isrc = IsrcCode]
Sources == {SourcePlain, SourceIsrc}

\* Spotify search items: the original, a tribute, a cover, a near namesake,
\* a collaboration, an unrelated title of a collaboration and a popular
\* recording by another near namesake
SpotifyOriginal ==
  [name |-> TitleT, artists |-> <<ArtistA>>, popularity |-> 10,
   duration_ms |-> 200000, album |-> AlbumL, genres |-> NULL, url |-> "spotify:original"]
SpotifyTribute ==
  [name |-> TitleT, artists |-> <<ArtistATribute>>, popularity |-> 90,
   duration_ms |-> 200500, album |-> AlbumL, genres |-> NULL, url |-> "spotify:tribute"]
SpotifyCover ==
  [name |-> TitleT, artists |-> << <<"Z", "z">> >>, popularity |-> 50,
   duration_ms |-> NONE, album |-> NULL, genres |-> NULL, url |-> "spotify:cover"]
SpotifyNamesake ==
  [name |-> TitleT, artists |-> << <<"A">> >>, popularity |-> 70,
   duration_ms |-> 201000, album |-> AlbumL, genres |-> NULL, url |-> "spotify:namesake"]
SpotifyCollab ==
  [name |-> TitleT, artists |-> <<ArtistA, <<"C", "d">> >>, popularity |-> 30,
   duration_ms |-> NONE, album |-> NULL, genres |-> NULL, url |-> "spotify:collab"]
SpotifyOther ==
  [name |-> <<"Q", "q">>, artists |-> <<ArtistA, <<"C", "d">> >>, popularity |-> 100,
   duration_ms |-> NONE, album |-> NULL, genres |-> NULL, url |-> "spotify:other"]
SpotifyLive ==
  [name |-> TitleT, artists |-> << <<"B">> >>, popularity |-> 100,
   duration_ms |-> NONE, album |-> NULL, genres |-> NULL, url |-> "spotify:live"]
SpotifyCatalog ==
  {SpotifyOriginal, SpotifyTribute, SpotifyCover, SpotifyNamesake, SpotifyCollab,
   SpotifyOther, SpotifyLive}

\* Apple Music search results (attributes and type)
AppleOriginal ==
  [type |-> "songs", name |-> TitleT, artistName |-> ArtistA, albumName |-> AlbumL,
   isrc |-> IsrcCode, genreNames |-> NULL, durationInMillis |-> 200000, url |-> "apple:original"]
AppleSingle ==
  [type |-> "songs", name |-> TitleT, artistName |-> ArtistA, albumName |-> NULL,
   isrc |-> NULL, genreNames |-> NULL, durationInMillis |-> 200000, url |-> "apple:single"]
AppleNamesake ==
  [type |-> "songs", name |-> TitleT, artistName |-> <<"A">>, albumName |-> NULL,
   isrc |-> NULL, genreNames |-> NULL, durationInMillis |-> NONE, url |-> "apple:namesake"]
AppleCover ==
  [type |-> "songs", name |-> TitleT, artistName |-> <<"Z", "z">>, albumName |-> AlbumL,
   isrc |-> NULL, genreNames |-> NULL, durationInMillis |-> NONE, url |-> "apple:cover"]
AppleCatalog == {AppleOriginal, AppleSingle, AppleNamesake, AppleCover}

Catalog(platform) == IF platform = "spotify" THEN SpotifyCatalog ELSE AppleCatalog

\* the item lists a search can answer with: at most MaxItems distinct items
ResultLists(platform) ==
  UNION {{list \in [1..n -> Catalog(platform)] :
            \A a, b \in 1..n : a # b => list[a] # list[b]} : n \in 0..MaxItems}

\* an album and an artist as sources; the album as the Spotify item endpoint
\* describes it (album: undefined)
SourceAlbum ==
  [type |-> "album", title |-> AlbumL, artist |-> ArtistA, album |-> AlbumL,
   isrc |-> NULL, duration |-> NONE, genres |-> NULL]
SourceAlbumBare == [SourceAlbum EXCEPT !.album = NULL]
SourceArtist ==
  [type |-> "artist", title |-> ArtistA, artist |-> ArtistA, album |-> NULL,
   isrc |-> NULL, duration |-> NONE, genres |-> NULL]
TypedSources == {SourceAlbum, SourceAlbumBare, SourceArtist}

\* an album and an artist among the Spotify items and the Apple Music results
SpotifyAlbumItem ==
  [name |-> AlbumL, artists |-> <<ArtistA>>, popularity |-> 40,
   duration_ms |-> NONE, album |-> NULL, genres |-> NULL, url |-> "spotify:album"]
SpotifyArtistItem ==
  [name |-> ArtistA, artists |-> NoArtists, popularity |-> 60,
   duration_ms |-> NONE, album |-> NULL, genres |-> NULL, url |-> "spotify:artist"]
AppleAlbumItem ==
  [type |-> "albums", name |-> AlbumL, artistName |-> ArtistA, albumName |-> NULL,
   isrc |-> NULL, genreNames |-> NULL, durationInMillis |-> NONE, url |-> "apple:album"]
AppleArtistItem ==
  [type |-> "artists", name |-> ArtistA, artistName |-> NULL, albumName |-> NULL,
   isrc |-> NULL, genreNames |-> NULL, durationInMillis |-> NONE, url |-> "apple:artist"]

\* types of searchAppleMusicContent: the resource type requested
AppleTypesAlwaysSongs(type) == "songs"

AppleSearchTypes(type) ==
  IF type = "track" THEN "songs" ELSE IF type = "album" THEN "albums" ELSE "artists"

\* the type parameter of the search request
SearchTypes(platform, metadata) ==
  IF platform = "spotify" THEN metadata.type ELSE AppleSearchTypes(metadata.type)

\* the item lists a search for albums or artists can answer with
\* a tribute album and a tribute act among the Spotify items
SpotifyAlbumTribute ==
  [name |-> AlbumL, artists |-> <<ArtistATribute>>, popularity |-> 90,
   duration_ms |-> NONE, album |-> NULL, genres |-> NULL, url |-> "spotify:albumTribute"]
SpotifyArtistTribute ==
  [name |-> ArtistATribute, artists |-> NoArtists, popularity |-> 90,
   duration_ms |-> NONE, album |-> NULL, genres |-> NULL, url |-> "spotify:artistTribute"]

SpotifyListsOf(type) ==
  IF type = "track" THEN ResultLists("spotify")
  ELSE IF type = "album"
       THEN {<<>>, <<SpotifyAlbumItem>>, <<SpotifyAlbumTribute>>,
             <<SpotifyAlbumTribute, SpotifyAlbumItem>>}
       ELSE {<<>>, <<SpotifyArtistItem>>, <<SpotifyArtistTribute>>,
             <<SpotifyArtistTribute, SpotifyArtistItem>>}

AppleListsOf(types) ==
  IF types = "songs" THEN ResultLists("apple")
  ELSE IF types = "albums" THEN {<<>>, <<AppleAlbumItem>>}
  ELSE {<<>>, <<AppleArtistItem>>}

\* how a search request can fail
SearchErrors == {"network", "http4xx", "http5xx"}

(***************************************************************************)
(* Match Selector: one conversion towards a target platform                *)
(***************************************************************************)
VARIABLES
  target,          \* "spotify" (searchSpotifyContent) or "apple" (searchAppleMusicContent)
  sourceMetadata,  \* the metadata of the source link
  pc,              \* "start", "waiting" (a search request is in flight), "done"
  supplied,        \* the credential names the environment supplied a value for
  tokenRequests,   \* number of times the token was asked for
  queries,         \* generateSearchQueries(sourceMetadata)
  qi,              \* position of searchQuery in queries
  calls,           \* the search requests issued so far, in order
  responded,       \* number of requests that returned or failed
  lastError,       \* let lastError
  lastFailed,      \* position of the most recent request that failed, 0 if none
  bestMatchSoFar,  \* let bestMatchSoFar (Apple Music flow)
  items,           \* the items of the most recent response
  scored,          \* const scored of the most recent response, after the sort
  bestSeen,        \* greatest match score among all items returned so far
  accepted,        \* urls of the candidates the selection rule accepted so far
  recovered,       \* a candidate was accepted after some request had failed
  matched,         \* the item returned as the match
  outcome,         \* what the conversion returned or threw
  link,            \* req.query.link of GET /convert
  stage,           \* position of the handler of GET /convert
  parsedMetadata,  \* what the link parser returned
  lookups,         \* the requests made to the source platform, in order
  response,        \* the HTTP response sent (status and body)
  call,            \* a function of the engine called on its own, with its arguments
  returned,        \* what that call returned
  history,         \* the history state of the LinkConverter component
  cookie,          \* the conversionHistory cookie
  isLoading,       \* a submission of the form awaits its response
  shown,           \* what the component shows of the last submission
  submissions,     \* number of submissions of the form so far
  mounted          \* the effects of the first render have run

\* the variables of the handler of GET /convert, and of a function called on its own
handlerVars == <<link, stage, parsedMetadata, lookups, response>>
callVars == <<call, returned>>
\* the variables of the LinkConverter component of the frontend
pageVars == <<history, cookie, isLoading, shown, submissions, mounted>>

vars ==
  <<target, sourceMetadata, pc, supplied, tokenRequests, queries, qi, calls,
    responded, lastError, lastFailed, bestMatchSoFar, items, scored, bestSeen,
    accepted, recovered, matched, outcome, handlerVars, callVars, pageVars>>

\* no cookie; nothing shown yet
NoCookie == [kind |-> "absent"]
NothingShown == [kind |-> "none"]

\* the page is not open
PageClosed ==
  /\ history = <<>>
  /\ cookie = NoCookie
  /\ isLoading = FALSE
  /\ shown = NothingShown
  /\ submissions = 0
  /\ mounted = FALSE

NoError == [kind |-> "none", at |-> 0]
NoBest == [score |-> NONE]
Pending == [kind |-> "pending"]
\* no response sent yet; no function called on its own
\* no link parsed yet, no source metadata fetched yet
NoMetadata == [type |-> "none"]
NoResponse == [status |-> 0]
NoCall == [fn |-> "none"]
\* the call has not returned yet; it returned the value v
NotReturned == [done |-> FALSE]
Returned(v) == [done |-> TRUE, value |-> v]

\* a cutoff lowered to the acceptance threshold
CutoffAtAcceptance == Hundredths(60)

\* the high-confidence cutoff and the acceptance threshold of the Apple flow
AppleVeryGoodScore == Hundredths(80)
AppleAcceptScore == Hundredths(60)

\* generateSearchQueries reads a property of undefined: the title or the
\* artist is missing
QueriesThrow(platform, metadata) ==
  IF platform = "spotify" /\ metadata.type = "artist" THEN metadata.artist = NULL
  ELSE metadata.title = NULL \/ metadata.artist = NULL

Queries(platform, metadata) ==
  IF platform = "spotify" THEN generateSearchQueries(metadata)
  ELSE appleGenerateSearchQueries(metadata)

Score(platform, item, metadata) ==
  IF platform = "spotify" THEN calculateMatchScore(item, metadata)
  ELSE appleCalculateMatchScore(item, metadata)

RECURSIVE MaxScore(_, _, _)
\* the greatest match score in a list of items, 0 for the empty list
MaxScore(platform, list, metadata) ==
  IF Len(list) = 0 THEN 0
  ELSE Max(Score(platform, list[1], metadata), MaxScore(platform, Tail(list), metadata))

Init ==
  /\ target \in {"spotify", "apple"}
  /\ sourceMetadata \in Sources
  /\ pc = "start"
  /\ supplied = {}
  /\ tokenRequests = 0
  /\ queries = <<>>
  /\ qi = 0
  /\ calls = <<>>
  /\ responded = 0
  /\ lastError = NoError
  /\ lastFailed = 0
  /\ bestMatchSoFar = NoBest
  /\ items = <<>>
  /\ scored = <<>>
  /\ bestSeen = 0
  /\ accepted = {}
  /\ recovered = FALSE
  /\ matched = NoItem
  /\ outcome = Pending
  /\ link = NULL
  /\ stage = "searching"
  /\ parsedMetadata = NoMetadata
  /\ lookups = <<>>
  /\ response = NoResponse
  /\ call = NoCall
  /\ returned = NotReturned
  /\ PageClosed

\* throw lastError || new Error('No ... found ...')
Exhausted(error) ==
  IF error # NoError THEN [kind |-> "searchError", error |-> error]
  ELSE [kind |-> "noMatch"]

\* after the loop: if (bestMatchSoFar && bestMatchSoFar.score > 0.6) return it
AppleFinalMatch(best) == best # NoBest /\ best.score > AppleAcceptScore

\* the end of one loop iteration that did not return: the next request is
\* issued, or the loop is over and the function returns or throws
NextIteration(error, best) ==
  /\ qi' = qi + 1
  /\ IF qi < Len(queries)
     THEN /\ calls' = Append(calls, queries[qi + 1])
          /\ pc' = "waiting"
          /\ outcome' = Pending
          /\ matched' = NoItem
     ELSE /\ calls' = calls
          /\ pc' = "done"
          /\ IF target = "apple" /\ AppleFinalMatch(best)
             THEN /\ outcome' = [kind |-> "match", url |-> best.result.url,
                                 metadata |-> mapAppleMusicResponse(best.result)]
                  /\ matched' = best.result
             ELSE /\ outcome' = Exhausted(error)
                  /\ matched' = NoItem

\* const token = await get...Token(); const queries = generateSearchQueries(..);
\* the first iteration up to its request
GetToken ==
  /\ pc = "start"
  /\ tokenRequests' = tokenRequests + 1
  /\ \E environment \in Environments(target), tokenGranted \in BOOLEAN :
       LET acquired == AcquireCredentials(target, environment)
       IN  /\ supplied' = {n \in Range(CredentialNames(target)) :
                             Credential(target, environment, n) = "value"}
           /\ IF acquired # "ok"
              THEN /\ outcome' = [kind |-> acquired]
                   /\ pc' = "done"
                   /\ UNCHANGED <<queries, qi, calls>>
              ELSE IF ~tokenGranted
              THEN \* axios.post(tokenUrl, ...) rejects, jwt.sign(...) throws
                   /\ outcome' = [kind |-> "tokenError"]
                   /\ pc' = "done"
                   /\ UNCHANGED <<queries, qi, calls>>
              ELSE IF QueriesThrow(target, sourceMetadata)
              THEN \* cleanText(undefined), undefined.split(...)
                   /\ outcome' = [kind |-> "typeError"]
                   /\ pc' = "done"
                   /\ UNCHANGED <<queries, qi, calls>>
              ELSE /\ queries' = Queries(target, sourceMetadata)
                   /\ qi' = 1
                   /\ calls' = <<Queries(target, sourceMetadata)[1]>>
                   /\ pc' = "waiting"
                   /\ outcome' = Pending
  /\ UNCHANGED <<target, sourceMetadata, responded, lastError, lastFailed,
                 bestMatchSoFar, items, scored, bestSeen, accepted, recovered, matched>>
  /\ UNCHANGED <<handlerVars, callVars, pageVars>>

\* a failed request that ends the conversion with its error
SearchFailAborts ==
  /\ pc = "waiting"
  /\ \E e \in SearchErrors :
       /\ lastError' = [kind |-> e, at |-> qi]
       /\ outcome' = [kind |-> "searchError", error |-> [kind |-> e, at |-> qi]]
  /\ pc' = "done"
  /\ lastFailed' = qi
  /\ responded' = responded + 1
  /\ UNCHANGED <<target, sourceMetadata, supplied, tokenRequests, queries, qi, calls,
                 bestMatchSoFar, items, scored, bestSeen, accepted, recovered, matched>>
  /\ UNCHANGED <<handlerVars, callVars, pageVars>>

\* a failed request whose error replaces lastError only when none is kept
SearchFailKeepsFirstError ==
  /\ pc = "waiting"
  /\ \E e \in SearchErrors :
       LET kept == IF lastError = NoError THEN [kind |-> e, at |-> qi] ELSE lastError
       IN  /\ lastError' = kept
           /\ NextIteration(kept, bestMatchSoFar)
  /\ lastFailed' = qi
  /\ responded' = responded + 1
  /\ UNCHANGED <<target, sourceMetadata, supplied, tokenRequests, queries,
                 bestMatchSoFar, items, scored, bestSeen, accepted, recovered>>
  /\ UNCHANGED <<handlerVars, callVars, pageVars>>

\* a failed request that is issued again
SearchFailRetries ==
  /\ pc = "waiting"
  /\ \E e \in SearchErrors : lastError' = [kind |-> e, at |-> qi]
  /\ calls' = Append(calls, queries[qi])
  /\ lastFailed' = qi
  /\ responded' = responded + 1
  /\ UNCHANGED <<target, sourceMetadata, pc, supplied, tokenRequests, queries, qi,
                 bestMatchSoFar, items, scored, bestSeen, accepted, recovered, matched,
                 outcome>>
  /\ UNCHANGED <<handlerVars, callVars, pageVars>>

\* catch (error) { lastError = error; } and the next iteration
SearchFail ==
  /\ pc = "waiting"
  /\ \E e \in SearchErrors :
       /\ lastError' = [kind |-> e, at |-> qi]
       /\ NextIteration([kind |-> e, at |-> qi], bestMatchSoFar)
  /\ lastFailed' = qi
  /\ responded' = responded + 1
  /\ UNCHANGED <<target, sourceMetadata, supplied, tokenRequests, queries,
                 bestMatchSoFar, items, scored, bestSeen, accepted, recovered>>
  /\ UNCHANGED <<handlerVars, callVars, pageVars>>

\* results.map(result => ({ result, score: calculateMatchScore(..) }))
AppleScored(results, metadata) ==
  AsTuple([k \in 1..Len(results) |->
     [result |-> results[k], score |-> appleCalculateMatchScore(results[k], metadata)]])

RECURSIVE InsertByScore(_, _)
\* x after the elements of sorted whose score is not less than its own
InsertByScore(sorted, x) ==
  IF Len(sorted) = 0 THEN <<x>>
  ELSE IF sorted[1].score >= x.score THEN <<sorted[1]>> \o InsertByScore(Tail(sorted), x)
  ELSE <<x>> \o sorted

RECURSIVE SortByScore(_)
\* scored.sort((a, b) => b.score - a.score): descending and stable
SortByScore(list) ==
  IF Len(list) = 0 THEN <<>>
  ELSE InsertByScore(SortByScore(SubSeq(list, 1, Len(list) - 1)), list[Len(list)])

\* the top of every response replaces the best match
LatestMatch(best, top) == TRUE

\* if (scored.length > 0 && (!bestMatchSoFar || scored[0].score > bestMatchSoFar.score))
BetterMatch(best, top) == best = NoBest \/ top.score > best.score

\* the array findBestMatch sorts, in the order the sort leaves it in
SpotifyScored(list, metadata, order) ==
  IF TruthyStr(metadata.isrc) THEN <<>>
  ELSE AsTuple([k \in 1..Len(list) |-> ScoredItems(list, metadata)[order[k]]])

\* what findBestMatch computes for every source and every response of this
\* model (evaluated once): the sorted array and the item returned
SpotifyOutcomes ==
  UNION {UNION {
    IF Len(list) = 0
    THEN {[source |-> metadata, types |-> metadata.type, list |-> list, scored |-> <<>>,
           bestMatch |-> NoItem, top |-> 0]}
    ELSE {[source |-> metadata, types |-> metadata.type, list |-> list,
           scored |-> SpotifyScored(list, metadata, order),
           bestMatch |-> findBestMatch(list, metadata, order),
           top |-> MaxScore("spotify", list, metadata)] :
            order \in SortChoices(list, metadata)}
    : list \in SpotifyListsOf(metadata.type)} : metadata \in Sources \cup TypedSources}

\* what the loop of searchAppleMusicContent computes for every source and
\* every response of this model (evaluated once): the sorted array
AppleOutcomes ==
  UNION {UNION {{[source |-> metadata, types |-> types, list |-> list,
                  scored |-> SortByScore(AppleScored(list, metadata)),
                  top |-> MaxScore("apple", list, metadata)] :
                   list \in AppleListsOf(types)} :
            types \in {"songs", "albums", "artists"}} :
         metadata \in Sources \cup TypedSources}

Outcomes(platform) == IF platform = "spotify" THEN SpotifyOutcomes ELSE AppleOutcomes

\* the body of the loop of searchSpotifyContent after a response with items
SpotifyResponse(row) ==
  /\ scored' = row.scored
  /\ UNCHANGED bestMatchSoFar
  /\ IF row.bestMatch # NoItem
     THEN /\ outcome' = [kind |-> "match",
                         url |-> mapSpotifyResponse(row.bestMatch, sourceMetadata).url,
                         metadata |-> mapSpotifyResponse(row.bestMatch, sourceMetadata).metadata]
          /\ matched' = row.bestMatch
          /\ accepted' = accepted \cup {row.bestMatch.url}
          /\ recovered' = (recovered \/ lastFailed > 0)
          /\ pc' = "done"
          /\ UNCHANGED <<qi, calls>>
     ELSE /\ NextIteration(lastError, bestMatchSoFar)
          /\ UNCHANGED <<accepted, recovered>>

\* the body of the loop of searchAppleMusicContent after a response with results
AppleResponse(row) ==
  LET sorted == row.scored
      best == IF BetterMatch(bestMatchSoFar, sorted[1]) THEN sorted[1] ELSE bestMatchSoFar
  IN  /\ scored' = sorted
      /\ bestMatchSoFar' = best
      /\ accepted' = IF sorted[1].score > AppleAcceptScore
                     THEN accepted \cup {sorted[1].result.url} ELSE accepted
      /\ recovered' = (recovered \/ (lastFailed > 0 /\ sorted[1].score > AppleAcceptScore))
      /\ IF sorted[1].score > AppleVeryGoodScore
         THEN /\ outcome' = [kind |-> "match", url |-> sorted[1].result.url,
                             metadata |-> mapAppleMusicResponse(sorted[1].result)]
              /\ matched' = sorted[1].result
              /\ pc' = "done"
              /\ UNCHANGED <<qi, calls>>
         ELSE NextIteration(lastError, best)

\* the response of the search request arrives: the rest of the iteration and
\* the next iteration up to its request
SearchReturn ==
  /\ pc = "waiting"
  /\ \E row \in Outcomes(target) :
       /\ row.source = sourceMetadata
       /\ row.types = SearchTypes(target, sourceMetadata)
       /\ items' = row.list
       /\ bestSeen' = Max(bestSeen, row.top)
       /\ IF Len(row.list) = 0
          THEN \* if (items.length === 0) continue;
               /\ NextIteration(lastError, bestMatchSoFar)
               /\ scored' = <<>>
               /\ UNCHANGED <<bestMatchSoFar, accepted, recovered>>
          ELSE IF target = "spotify" THEN SpotifyResponse(row) ELSE AppleResponse(row)
  /\ responded' = responded + 1
  /\ UNCHANGED <<target, sourceMetadata, supplied, tokenRequests, queries,
                 lastError, lastFailed>>
  /\ UNCHANGED <<handlerVars, callVars, pageVars>>

Next == GetToken \/ SearchFail \/ SearchReturn

Spec == Init /\ [][Next]_vars

(***************************************************************************)
(* Match confidence (calculateMatchConfidence, calculateStringSimilarity)  *)
(***************************************************************************)
LitParenFeat == <<"(", "f", "e", "a", "t">>
LitFt == <<"f", "t">>
LitFeaturing == <<"f", "e", "a", "t", "u", "r", "i", "n", "g">>

\* /\(feat\.?|ft\.?|featuring\s+[^)]+\)/gi at i: index of the last matched
\* character, 0 when none of the three alternatives matches
FeatureMarkEnd(s, i) ==
  IF KwAt(s, i, LitParenFeat) THEN AfterKw(s, i, LitParenFeat) - 1
  ELSE IF KwAt(s, i, LitFt) THEN AfterKw(s, i, LitFt) - 1
  ELSE IF KwAt(s, i, LitFeaturing)
       THEN LET openAt(k, e) == IF k <= Len(s) /\ IsSpace(s[k]) /\ e >= k + 2 THEN e ELSE 0
            IN  openAt(i + Len(LitFeaturing), FirstIn(s, i + Len(LitFeaturing), {")"}))
       ELSE 0

RECURSIVE RemoveFeatureMarks(_, _)
RemoveFeatureMarks(s, i) ==
  IF i > Len(s) THEN <<>>
  ELSE IF FeatureMarkEnd(s, i) > 0 THEN RemoveFeatureMarks(s, FeatureMarkEnd(s, i) + 1)
  ELSE <<s[i]>> \o RemoveFeatureMarks(s, i + 1)

\* /\([^)]+\)/ at i
FilledParenEnd(s, i) ==
  IF i <= Len(s) /\ s[i] = "(" /\ FirstIn(s, i + 1, {")"}) >= i + 2
  THEN FirstIn(s, i + 1, {")"}) ELSE 0

RECURSIVE RemoveFilledParen(_, _)
RemoveFilledParen(s, i) ==
  IF i > Len(s) THEN <<>>
  ELSE IF FilledParenEnd(s, i) > 0 THEN RemoveFilledParen(s, FilledParenEnd(s, i) + 1)
  ELSE <<s[i]>> \o RemoveFilledParen(s, i + 1)

normalizeFeatures(s) == trim(RemoveFilledParen(RemoveFeatureMarks(s, 1), 1))

\* different strings counted as not similar at all
SimilarityExactOnly(str1, str2) ==
  IF trim(toLowerCase(str1)) = trim(toLowerCase(str2)) THEN 100 ELSE 0

\* the similarity of two strings in hundredths: 1, 0.95 or 0.5
calculateStringSimilarity(str1, str2) ==
  LET compare(s1, s2) ==
        IF s1 = s2 THEN 100
        ELSE IF normalizeFeatures(s1) = normalizeFeatures(s2) THEN 95
        ELSE 50
  IN  compare(trim(toLowerCase(str1)), trim(toLowerCase(str2)))

\* similarity * weight: 0.95 * 40 and 0.95 * 20 are the doubles 38 and 19
Weighted(similarity, weight) == (similarity * weight) \div 100

\* Math.round((score / factors) * 100): on every pair the function forms the
\* double arithmetic gives the exact quotient rounded half up
RoundedPercent(score, factors) == (200 * score + factors) \div (2 * factors)

\* a field missing on one side counted with its weight all the same
FieldPartAlwaysCounted(a, b, weight) ==
  IF TruthyStr(a) /\ TruthyStr(b)
  THEN [score |-> Weighted(calculateStringSimilarity(a, b), weight), factors |-> weight]
  ELSE [score |-> 0, factors |-> weight]

\* if (source.f && match.f) { score += similarity * weight; factors += weight; }
FieldPart(a, b, weight) ==
  IF TruthyStr(a) /\ TruthyStr(b)
  THEN [score |-> Weighted(calculateStringSimilarity(a, b), weight), factors |-> weight]
  ELSE [score |-> 0, factors |-> 0]

\* the ISRC test never passing
IsrcNeverSame(source, match) == FALSE

\* source.isrc && match.isrc && source.isrc === match.isrc
SameIsrc(source, match) ==
  TruthyStr(source.isrc) /\ TruthyStr(match.isrc) /\ source.isrc = match.isrc

calculateMatchConfidence(source, match) ==
  LET total(title, artist, album) ==
        IF SameIsrc(source, match) THEN 100
        ELSE IF title.factors + artist.factors + album.factors > 0
             THEN RoundedPercent(title.score + artist.score + album.score,
                                 title.factors + artist.factors + album.factors)
             ELSE 0
  IN  total(FieldPart(source.title, match.title, 40),
            FieldPart(source.artist, match.artist, 40),
            FieldPart(source.album, match.album, 20))

(***************************************************************************)
(* The functions of the engine, each called on its own                     *)
(***************************************************************************)
\* credits of two artists, in both orders
ArtistB == <<"B", "o">>
ArtistC == <<"C", "y">>
CreditBC == <<"B", "o", " ", "&", " ", "C", "y">>
CreditCB == <<"C", "y", " ", "&", " ", "B", "o">>

\* sources credited to two artists
SourceDuoBC == [SourcePlain EXCEPT !.artist = CreditBC]
SourceDuoCB == [SourcePlain EXCEPT !.artist = CreditCB]

\* Spotify items credited to the two artists
SpotifyDuoBC ==
  [name |-> TitleT, artists |-> <<ArtistB, ArtistC>>, popularity |-> 20,
   duration_ms |-> NONE, album |-> NULL, genres |-> NULL, url |-> "spotify:duoBC"]
SpotifyDuoCB ==
  [name |-> TitleT, artists |-> <<ArtistC, ArtistB>>, popularity |-> 20,
   duration_ms |-> NONE, album |-> NULL, genres |-> NULL, url |-> "spotify:duoCB"]
SpotifyDuoCredit ==
  [name |-> TitleT, artists |-> <<CreditCB>>, popularity |-> 20,
   duration_ms |-> NONE, album |-> NULL, genres |-> NULL, url |-> "spotify:duoCredit"]
\* titles that name a featured artist, that contain the title, and unrelated
TitleFeat == <<"X", "y", " ", "f", "e", "a", "t", ".", " ", "Z", "z">>
TitleLonger == <<"X", "y", " ", "Q">>
TitleUnrelated == <<"Q", "q">>
TitleVariants == {TitleT, TitleFeat, TitleLonger, TitleUnrelated}

\* recordings by an unrelated artist, without album, duration or ISRC
SpotifyByTitle(name) ==
  [name |-> name, artists |-> << <<"Z", "z">> >>, popularity |-> 50,
   duration_ms |-> NONE, album |-> NULL, genres |-> NULL, url |-> "spotify:title"]
AppleByTitle(name) ==
  [type |-> "songs", name |-> name, artistName |-> <<"Z", "z">>, albumName |-> NULL,
   isrc |-> NULL, genreNames |-> NULL, durationInMillis |-> NONE, url |-> "apple:title"]

\* genre lists: one of the two genres of the source, both, neither
GenresOfSource == <<"pop", "rock">>
GenreLists == {<<"pop">>, <<"rock", "pop">>, <<"jazz">>, <<"pop", "jazz", "folk">>}
SourceArtistTagged == [SourceArtist EXCEPT !.genres = GenresOfSource]
ScoredSources ==
  {SourcePlain, SourceIsrc, SourceDuoBC, SourceDuoCB, SourceAlbum, SourceArtist,
   SourceArtistTagged}

\* artists that carry genres: the artist, a longer name that contains it, a
\* shorter name it contains, and another artist
ArtistLonger == <<"A", "b", " ", "Q">>
ArtistShorter == <<"A">>
ArtistNames == {ArtistA, ArtistLonger, ArtistShorter, <<"Z", "z">>}
SpotifyArtistWith(name, genres) ==
  [name |-> name, artists |-> NoArtists, popularity |-> 60,
   duration_ms |-> NONE, album |-> NULL, genres |-> genres, url |-> "spotify:tagged"]
AppleArtistWith(name, genres) ==
  [type |-> "artists", name |-> name, artistName |-> NULL, albumName |-> NULL,
   isrc |-> NULL, genreNames |-> genres, durationInMillis |-> NONE,
   url |-> "apple:tagged"]

SpotifyScoredItems ==
  SpotifyCatalog \cup {SpotifyDuoBC, SpotifyDuoCB, SpotifyDuoCredit, SpotifyAlbumItem,
                      SpotifyArtistItem}
  \cup {SpotifyByTitle(name) : name \in TitleVariants}
  \cup {SpotifyArtistWith(name, genres) : name \in ArtistNames, genres \in GenreLists \cup {NULL}}

\* Apple Music results credited to the two artists
AppleDuoBC ==
  [type |-> "songs", name |-> TitleT, artistName |-> CreditBC, albumName |-> NULL,
   isrc |-> NULL, genreNames |-> NULL, durationInMillis |-> NONE, url |-> "apple:duoBC"]
AppleDuoCB ==
  [type |-> "songs", name |-> TitleT, artistName |-> CreditCB, albumName |-> NULL,
   isrc |-> NULL, genreNames |-> NULL, durationInMillis |-> NONE, url |-> "apple:duoCB"]
AppleScoredItems ==
  AppleCatalog \cup {AppleDuoBC, AppleDuoCB, AppleAlbumItem, AppleArtistItem}
  \cup {AppleByTitle(name) : name \in TitleVariants}
  \cup {AppleArtistWith(name, genres) : name \in ArtistNames, genres \in GenreLists \cup {NULL}}

\* the calls of the two scorers: calculateMatchScore(item, sourceMetadata)
ScoreCalls ==
  {[fn |-> "calculateMatchScore", platform |-> "spotify", item |-> i, metadata |-> m] :
     i \in SpotifyScoredItems, m \in ScoredSources}
  \cup
  {[fn |-> "calculateMatchScore", platform |-> "apple", item |-> i, metadata |-> m] :
     i \in AppleScoredItems, m \in ScoredSources}

\* metadata for the confidence: titles that differ in case or by a
\* parenthesised part, other texts, absent and empty fields
TitleUpper == <<"X", "Y", " ">>
TitleLive == <<"X", "y", " ", "(", "Z", ")">>
OtherText == <<"Z", "z">>
OtherIsrc == <<"G", "B", "2">>
ConfidenceSources ==
  {[type |-> "track", title |-> ti, artist |-> ar, album |-> al, isrc |-> is] :
     ti \in {TitleT, TitleLive, NULL}, ar \in {ArtistA, NULL},
     al \in {AlbumL, NULL}, is \in {IsrcCode, NULL}}
ConfidenceMatches ==
  {[type |-> "track", title |-> ti, artist |-> ar, album |-> al, isrc |-> is] :
     ti \in {TitleT, TitleUpper, OtherText}, ar \in {ArtistA, OtherText, NULL},
     al \in {AlbumL, OtherText, NULL, <<>>}, is \in {IsrcCode, OtherIsrc, NULL}}

\* the calls of calculateMatchConfidence(source, match)
ConfidenceCalls ==
  {[fn |-> "calculateMatchConfidence", source |-> s, match |-> m] :
     s \in ConfidenceSources, m \in ConfidenceMatches}

\* the pieces titles are built from: brackets, a version keyword, a
\* bracketed year
TitleTokens ==
  { <<"(">>, <<")">>, <<"[">>, <<"]">>, <<"e", "d", "i", "t">>,
    <<"(", "2", "0", "1", "1", ")">> }

MaxTokens == 4

RECURSIVE TitlesOf(_)
\* the titles of exactly n pieces
TitlesOf(n) ==
  IF n = 0 THEN {<<>>}
  ELSE {t \o k : t \in TitlesOf(n - 1), k \in TitleTokens}

\* a square-bracketed year inside a parenthesized version tag, and a tag
\* inside square brackets
TitleYearInTag ==
  <<"X", " ", "(", "e", "d", "i", "t", " ", "[", "2", "0", "1", "1", "]", ")">>
TitleTagInBrackets ==
  <<"X", " ", "[", "(", "e", "d", "i", "t", ")", "]", " ">>

\* every title of at most MaxTokens pieces, and the two titles above
StripTitles ==
  UNION {TitlesOf(n) : n \in 0..MaxTokens} \cup {TitleYearInTag, TitleTagInBrackets}

StripCalls == {[fn |-> "stripVersionInfo", title |-> t] : t \in StripTitles}

\* titles that carry a version tag in parentheses or in square brackets
TitleRemaster == <<"X", "y", " ", "(", "2", "0", "1", "1", " ", "R", "e", "m", "a", "s", "t", "e", "r", ")">>
TitleEditTag == <<"X", "y", " ", "[", "E", "d", "i", "t", "]">>
VersionTitles == {TitleRemaster, TitleEditTag}

\* sources for the query generator: with and without version tag, featured
\* artist, ISRC and album
QuerySources ==
  {[type |-> "track", title |-> ti, artist |-> ArtistA, album |-> al, isrc |-> is,
    duration |-> 200000, genres |-> NULL] :
     ti \in VersionTitles \cup {TitleT, TitleFeat}, al \in {AlbumL, NULL},
     is \in {IsrcCode, NULL}}
  \cup {SourceAlbum, SourceArtist}

QueryCalls == {[fn |-> "generateSearchQueries", metadata |-> m] : m \in QuerySources}

Calls == ScoreCalls \cup ConfidenceCalls \cup StripCalls \cup QueryCalls

\* no conversion is running: a function is about to be called on its own
CallInit ==
  /\ target = "none"
  /\ sourceMetadata = NoMetadata
  /\ pc = "idle"
  /\ supplied = {}
  /\ tokenRequests = 0
  /\ queries = <<>>
  /\ qi = 0
  /\ calls = <<>>
  /\ responded = 0
  /\ lastError = NoError
  /\ lastFailed = 0
  /\ bestMatchSoFar = NoBest
  /\ items = <<>>
  /\ scored = <<>>
  /\ bestSeen = 0
  /\ accepted = {}
  /\ recovered = FALSE
  /\ matched = NoItem
  /\ outcome = Pending
  /\ link = NULL
  /\ stage = "idle"
  /\ parsedMetadata = NoMetadata
  /\ lookups = <<>>
  /\ response = NoResponse
  /\ call \in Calls
  /\ returned = NotReturned
  /\ PageClosed

\* what a call leaves alone: everything but its result
CallFrame ==
  UNCHANGED <<target, sourceMetadata, pc, supplied, tokenRequests, queries, qi, calls,
              responded, lastError, lastFailed, bestMatchSoFar, items, scored, bestSeen,
              accepted, recovered, matched, outcome, handlerVars, call, pageVars>>

\* calculateMatchScore(item, sourceMetadata) returns
CallCalculateMatchScore ==
  /\ call.fn = "calculateMatchScore"
  /\ ~returned.done
  /\ returned' = Returned(Score(call.platform, call.item, call.metadata))
  /\ CallFrame

\* calculateMatchConfidence(source, match) returns
CallCalculateMatchConfidence ==
  /\ call.fn = "calculateMatchConfidence"
  /\ ~returned.done
  /\ returned' = Returned(calculateMatchConfidence(call.source, call.match))
  /\ CallFrame

\* stripVersionInfo(title) returns
CallStripVersionInfo ==
  /\ call.fn = "stripVersionInfo"
  /\ ~returned.done
  /\ returned' = Returned(stripVersionInfo(call.title))
  /\ CallFrame

\* generateSearchQueries(metadata) of the Spotify-target module returns
CallGenerateSearchQueries ==
  /\ call.fn = "generateSearchQueries"
  /\ ~returned.done
  /\ returned' = Returned(generateSearchQueries(call.metadata))
  /\ CallFrame

CallNext ==
  \/ CallCalculateMatchScore
  \/ CallCalculateMatchConfidence
  \/ CallStripVersionInfo
  \/ CallGenerateSearchQueries

CallSpec == CallInit /\ [][CallNext]_vars

(***************************************************************************)
(* Link Parser (new URL, parseAppleMusicLink, parseSpotifyLink)            *)
(***************************************************************************)
LitAppleHost ==
  <<"m", "u", "s", "i", "c", ".", "a", "p", "p", "l", "e", ".", "c", "o", "m">>
LitSpotifyHost ==
  <<"o", "p", "e", "n", ".", "s", "p", "o", "t", "i", "f", "y", ".", "c", "o", "m">>

\* the characters of a URL scheme after its first letter
SchemeChars ==
  Range(UpperChars) \cup Range(LowerChars) \cup Digits \cup {"+", "-", "."}

InvalidUrl == [ok |-> FALSE]

\* the end of the part of text that starts at from and stops before the first
\* character of class
EndBefore(text, from, class) ==
  IF FirstIn(text, from, class) = 0 THEN Len(text) ELSE FirstIn(text, from, class) - 1

\* new URL(text) for a text with a special scheme and no base: scheme ":",
\* slashes, host, pathname up to "?" or "#", search up to "#"; a TypeError
\* when text has no scheme or no host
URL(text) ==
  LET colon == FirstIn(text, 1, {":"})
      parsed(hostAt) ==
        LET hostEnd == EndBefore(text, hostAt, {"/", "?", "#"})
            pathEnd == EndBefore(text, hostAt, {"?", "#"})
            searchEnd == EndBefore(text, hostAt, {"#"})
        IN  IF hostEnd < hostAt THEN InvalidUrl
            ELSE [ok |-> TRUE,
                  host |-> toLowerCase(SubSeq(text, hostAt, hostEnd)),
                  pathname |-> IF pathEnd > hostEnd
                               THEN SubSeq(text, hostEnd + 1, pathEnd) ELSE <<"/">>,
                  search |-> IF pathEnd < searchEnd
                             THEN SubSeq(text, pathEnd + 2, searchEnd) ELSE <<>>]
  IN  IF \/ colon <= 1
         \/ text[1] \notin Range(UpperChars) \cup Range(LowerChars)
         \/ \E k \in 2..(colon - 1) : text[k] \notin SchemeChars
      THEN InvalidUrl
      ELSE parsed(colon + 1 + RunInside(text, colon + 1, {"/"}))

\* url.pathname.split('/').filter(part => part.length > 0)
PathParts(url) == SelectSeq(splitOnClass(url.pathname, {"/"}), LAMBDA part : Len(part) > 0)

\* array[index] of JavaScript, counted from 1: undefined outside the array
ElementAt(array, index) ==
  IF index >= 1 /\ index <= Len(array) THEN array[index] ELSE NULL

RECURSIVE FirstParam(_, _)
\* the value of the first name=value pair with the given name, null if none
FirstParam(pairs, name) ==
  IF Len(pairs) = 0 THEN NULL
  ELSE LET eq == FirstIn(pairs[1], 1, {"="})
           key == IF eq = 0 THEN pairs[1] ELSE SubSeq(pairs[1], 1, eq - 1)
           value == IF eq = 0 THEN <<>> ELSE SubSeq(pairs[1], eq + 1, Len(pairs[1]))
       IN  IF Len(pairs[1]) > 0 /\ key = name THEN value
           ELSE FirstParam(Tail(pairs), name)

\* url.searchParams.get(name)
searchParamsGet(url, name) == FirstParam(splitOnClass(url.search, {"&"}), name)

\* the content type labels, spelled out
TypeSpelling ==
  [track |-> <<"t", "r", "a", "c", "k">>,
   album |-> <<"a", "l", "b", "u", "m">>,
   artist |-> <<"a", "r", "t", "i", "s", "t">>,
   playlist |-> <<"p", "l", "a", "y", "l", "i", "s", "t">>]

\* the label a path segment spells
TypeLabel(part) ==
  IF part = NULL THEN "undefined"
  ELSE IF \E n \in DOMAIN TypeSpelling : TypeSpelling[n] = part
       THEN CHOOSE n \in DOMAIN TypeSpelling : TypeSpelling[n] = part
       ELSE "other"

Thrown(message) == [ok |-> FALSE, error |-> message]
Parsed(value) == [ok |-> TRUE, value |-> value]

\* the parser without the track override: type and id of the path only
parseApplePathOnly(appleMusicLink) ==
  IF ~includes(appleMusicLink, LitAppleHost) THEN Thrown("Invalid Apple Music link")
  ELSE IF ~URL(appleMusicLink).ok THEN Thrown("Failed to parse Apple Music link")
  ELSE LET pathParts == PathParts(URL(appleMusicLink))
       IN  Parsed([type |-> TypeLabel(ElementAt(pathParts, 2)),
                   id |-> ElementAt(pathParts, Len(pathParts)),
                   region |-> ElementAt(pathParts, 1),
                   path |-> pathParts])

parseAppleMusicLink(appleMusicLink) ==
  IF ~includes(appleMusicLink, LitAppleHost) THEN Thrown("Invalid Apple Music link")
  ELSE IF ~URL(appleMusicLink).ok THEN Thrown("Failed to parse Apple Music link")
  ELSE LET pathParts == PathParts(URL(appleMusicLink))
           trackId == searchParamsGet(URL(appleMusicLink), <<"i">>)
       IN  IF TruthyStr(trackId)
           THEN Parsed([type |-> "track", id |-> trackId,
                        region |-> ElementAt(pathParts, 1), path |-> pathParts])
           ELSE Parsed([type |-> TypeLabel(ElementAt(pathParts, 2)),
                        id |-> ElementAt(pathParts, Len(pathParts)),
                        region |-> ElementAt(pathParts, 1),
                        path |-> pathParts])

parseSpotifyLink(spotifyLink) ==
  IF ~includes(spotifyLink, LitSpotifyHost) THEN Thrown("Invalid Spotify link")
  ELSE IF ~URL(spotifyLink).ok THEN Thrown("Failed to parse Spotify link")
  ELSE LET pathParts == PathParts(URL(spotifyLink))
       IN  Parsed([type |-> TypeLabel(ElementAt(pathParts, 1)),
                   id |-> ElementAt(pathParts, 2)])

convertAppleMusicLinkToSpotify(appleMusicLink) == parseAppleMusicLink(appleMusicLink)

\* the parsed Spotify link in the shape of a parsed Apple Music link
convertSpotifyLinkToAppleMusic(spotifyLink) ==
  LET parsed == parseSpotifyLink(spotifyLink)
  IN  IF ~parsed.ok THEN parsed
      ELSE Parsed([type |-> parsed.value.type, id |-> parsed.value.id,
                   region |-> <<"u", "s">>,
                   path |-> << <<"u", "s">>,
                               ElementAt(PathParts(URL(spotifyLink)), 1),
                               parsed.value.id >>])

\* the links of the requests: well-formed ones, ones without the path segments,
\* ones that only mention the platform domain, ones without a scheme
AppleTrackLink ==
  <<"h", "t", "t", "p", "s", ":", "/", "/", "m", "u", "s", "i", "c", ".", "a", "p",
    "p", "l", "e", ".", "c", "o", "m", "/", "u", "s", "/", "a", "l", "b", "u", "m",
    "/", "x", "/", "1", "1", "?", "i", "=", "2", "2">>
\* a track whose lookup result carries an ISRC
AppleIsrcTrackLink ==
  <<"h", "t", "t", "p", "s", ":", "/", "/", "m", "u", "s", "i", "c", ".", "a", "p", "p", "l", "e", ".", "c", "o", "m", "/", "u", "s", "/", "a", "l", "b", "u", "m", "/", "x", "/", "1", "1", "?", "i", "=", "4", "4">>
AppleAlbumLink ==
  <<"h", "t", "t", "p", "s", ":", "/", "/", "m", "u", "s", "i", "c", ".", "a", "p",
    "p", "l", "e", ".", "c", "o", "m", "/", "u", "s", "/", "a", "l", "b", "u", "m",
    "/", "x", "/", "1", "1">>
AppleArtistLink ==
  <<"h", "t", "t", "p", "s", ":", "/", "/", "m", "u", "s", "i", "c", ".", "a", "p",
    "p", "l", "e", ".", "c", "o", "m", "/", "u", "s", "/", "a", "r", "t", "i", "s",
    "t", "/", "x", "/", "3", "3">>
AppleEmptyTrackLink ==
  <<"h", "t", "t", "p", "s", ":", "/", "/", "m", "u", "s", "i", "c", ".", "a", "p",
    "p", "l", "e", ".", "c", "o", "m", "/", "u", "s", "/", "a", "l", "b", "u", "m",
    "/", "x", "/", "1", "1", "?", "i", "=">>
AppleRegionOnlyLink ==
  <<"h", "t", "t", "p", "s", ":", "/", "/", "m", "u", "s", "i", "c", ".", "a", "p",
    "p", "l", "e", ".", "c", "o", "m", "/", "u", "s">>
AppleOnlyTrackLink ==
  <<"h", "t", "t", "p", "s", ":", "/", "/", "m", "u", "s", "i", "c", ".", "a", "p",
    "p", "l", "e", ".", "c", "o", "m", "/", "?", "i", "=", "2", "2">>
AppleElsewhereLink ==
  <<"h", "t", "t", "p", "s", ":", "/", "/", "a", ".", "i", "o", "/", "?", "u", "=",
    "m", "u", "s", "i", "c", ".", "a", "p", "p", "l", "e", ".", "c", "o", "m">>
AppleBareLink ==
  <<"m", "u", "s", "i", "c", ".", "a", "p", "p", "l", "e", ".", "c", "o", "m", "/",
    "u", "s", "/", "a", "l", "b", "u", "m", "/", "x", "/", "1", "1">>
SpotifyTrackLink ==
  <<"h", "t", "t", "p", "s", ":", "/", "/", "o", "p", "e", "n", ".", "s", "p", "o",
    "t", "i", "f", "y", ".", "c", "o", "m", "/", "t", "r", "a", "c", "k", "/", "1">>
SpotifyAlbumLink ==
  <<"h", "t", "t", "p", "s", ":", "/", "/", "o", "p", "e", "n", ".", "s", "p", "o",
    "t", "i", "f", "y", ".", "c", "o", "m", "/", "a", "l", "b", "u", "m", "/", "2">>
SpotifyArtistLink ==
  <<"h", "t", "t", "p", "s", ":", "/", "/", "o", "p", "e", "n", ".", "s", "p", "o",
    "t", "i", "f", "y", ".", "c", "o", "m", "/", "a", "r", "t", "i", "s", "t", "/",
    "3">>
SpotifyPlaylistLink ==
  <<"h", "t", "t", "p", "s", ":", "/", "/", "o", "p", "e", "n", ".", "s", "p", "o",
    "t", "i", "f", "y", ".", "c", "o", "m", "/", "p", "l", "a", "y", "l", "i", "s",
    "t", "/", "4">>
SpotifyTypeOnlyLink ==
  <<"h", "t", "t", "p", "s", ":", "/", "/", "o", "p", "e", "n", ".", "s", "p", "o",
    "t", "i", "f", "y", ".", "c", "o", "m", "/", "t", "r", "a", "c", "k">>
SpotifyElsewhereLink ==
  <<"h", "t", "t", "p", "s", ":", "/", "/", "a", ".", "i", "o", "/", "o", "p", "e",
    "n", ".", "s", "p", "o", "t", "i", "f", "y", ".", "c", "o", "m", "/", "t", "r",
    "a", "c", "k", "/", "1">>
SpotifyBareLink ==
  <<"o", "p", "e", "n", ".", "s", "p", "o", "t", "i", "f", "y", ".", "c", "o", "m",
    "/", "t", "r", "a", "c", "k", "/", "1">>
OtherLink ==
  <<"h", "t", "t", "p", "s", ":", "/", "/", "a", ".", "i", "o", "/", "t", "r", "a",
    "c", "k", "/", "1">>

Links ==
  {AppleTrackLink, AppleAlbumLink, AppleArtistLink, AppleEmptyTrackLink,
   AppleRegionOnlyLink, AppleOnlyTrackLink, AppleElsewhereLink, AppleBareLink,
   SpotifyTrackLink, SpotifyAlbumLink, SpotifyArtistLink, SpotifyPlaylistLink,
   SpotifyTypeOnlyLink, SpotifyElsewhereLink, SpotifyBareLink, OtherLink,
   AppleIsrcTrackLink}

(***************************************************************************)
(* Metadata Fetcher (extractMetadata, getSpotifyDetailedMetadata)          *)
(***************************************************************************)
\* results of the iTunes lookup: a song, a collection, an artist
ITunesSong ==
  [trackName |-> TitleT, collectionName |-> AlbumL, artistName |-> ArtistA,
   isrc |-> NULL, trackTimeMillis |-> 200000]
ITunesSongIsrc == [ITunesSong EXCEPT !.isrc = IsrcCode]
ITunesCollection ==
  [trackName |-> NULL, collectionName |-> AlbumL, artistName |-> ArtistA,
   isrc |-> NULL, trackTimeMillis |-> NONE]
ITunesArtist ==
  [trackName |-> NULL, collectionName |-> NULL, artistName |-> ArtistA,
   isrc |-> NULL, trackTimeMillis |-> NONE]

\* response.data.results of the lookup of an id: the resource the id names
ITunesResults(id) ==
  IF id = <<"2", "2">> THEN <<ITunesSong>>
  ELSE IF id = <<"4", "4">> THEN <<ITunesSongIsrc>>
  ELSE IF id = <<"1", "1">> THEN <<ITunesCollection>>
  ELSE IF id = <<"3", "3">> THEN <<ITunesArtist>>
  ELSE <<>>

\* a || b || c on strings
FirstTruthy(a, b, c) == IF TruthyStr(a) THEN a ELSE IF TruthyStr(b) THEN b ELSE c

\* the metadata extractMetadata maps results[0] to
extractMetadata(appleMusicMetadata, result) ==
  [type |-> appleMusicMetadata.type,
   title |-> FirstTruthy(result.trackName, result.collectionName, result.artistName),
   artist |-> result.artistName,
   album |-> result.collectionName,
   isrc |-> result.isrc,
   duration |-> result.trackTimeMillis,
   genres |-> NULL]

\* objects of the Spotify item endpoints: a track, an album, an artist, a playlist
SpotifyTrackObject ==
  [name |-> TitleT, artists |-> <<ArtistA>>, album |-> AlbumL, isrc |-> IsrcCode,
   duration_ms |-> 200000, genres |-> NULL]
SpotifyAlbumObject ==
  [name |-> AlbumL, artists |-> <<ArtistA>>, album |-> NULL, isrc |-> NULL,
   duration_ms |-> NONE, genres |-> NULL]
SpotifyArtistObject ==
  [name |-> ArtistA, artists |-> NULL, album |-> NULL, isrc |-> NULL,
   duration_ms |-> NONE, genres |-> NULL]
SpotifyPlaylistObject ==
  [name |-> TitleT, artists |-> NULL, album |-> NULL, isrc |-> NULL,
   duration_ms |-> NONE, genres |-> NULL]

\* response.data of GET /v1/<type>s/<id>: the object the path names, if any
SpotifyObjects(type, id) ==
  IF type = "track" /\ id = <<"1">> THEN {SpotifyTrackObject}
  ELSE IF type = "album" /\ id = <<"2">> THEN {SpotifyAlbumObject}
  ELSE IF type = "artist" /\ id = <<"3">> THEN {SpotifyArtistObject}
  ELSE IF type = "playlist" /\ id = <<"4">> THEN {SpotifyPlaylistObject}
  ELSE {}

\* the metadata getSpotifyDetailedMetadata maps the object to
getSpotifyDetailedMetadata(spotifyData, item) ==
  [type |-> spotifyData.type,
   title |-> item.name,
   artist |-> IF spotifyData.type = "artist" THEN item.name
              ELSE IF item.artists = NULL THEN NULL
              ELSE join(item.artists, <<",", " ">>),
   album |-> IF spotifyData.type = "track" THEN item.album ELSE NULL,
   isrc |-> item.isrc,
   duration |-> item.duration_ms,
   genres |-> item.genres]

(***************************************************************************)
(* GET /convert: one request                                               *)
(***************************************************************************)
ConvertInit ==
  /\ target = "none"
  /\ sourceMetadata = NoMetadata
  /\ pc = "idle"
  /\ supplied = {}
  /\ tokenRequests = 0
  /\ queries = <<>>
  /\ qi = 0
  /\ calls = <<>>
  /\ responded = 0
  /\ lastError = NoError
  /\ lastFailed = 0
  /\ bestMatchSoFar = NoBest
  /\ items = <<>>
  /\ scored = <<>>
  /\ bestSeen = 0
  /\ accepted = {}
  /\ recovered = FALSE
  /\ matched = NoItem
  /\ outcome = Pending
  /\ link \in Links \cup {NULL}
  /\ stage = "received"
  /\ parsedMetadata = NoMetadata
  /\ lookups = <<>>
  /\ response = NoResponse
  /\ call = NoCall
  /\ returned = NotReturned
  /\ PageClosed

\* what the handler leaves alone outside the search
SearchFrame ==
  UNCHANGED <<supplied, tokenRequests, queries, qi, calls, responded, lastError,
              lastFailed, bestMatchSoFar, items, scored, bestSeen, accepted, recovered,
              matched, outcome, link, callVars, pageVars>>

\* res.status(status).json({ error })
Reply(status, error) ==
  /\ response' = [status |-> status, error |-> error]
  /\ stage' = "responded"

\* what the handler computes from each link of this model (evaluated once):
\* the two substring tests and the parsed link of either branch
LinkRows ==
  {[text |-> l,
    apple |-> includes(l, LitAppleHost),
    spotify |-> includes(l, LitSpotifyHost),
    parsedMetadata |-> convertAppleMusicLinkToSpotify(l),
    parsedSpotify |-> convertSpotifyLinkToAppleMusic(l)] : l \in Links}

\* the handler from the request to its first await or to its response
Receive ==
  /\ stage = "received"
  /\ IF link = NULL
     THEN /\ Reply(400, "link query parameter is required and must be a string")
          /\ UNCHANGED <<target, parsedMetadata, lookups>>
     ELSE \E row \in LinkRows :
          /\ row.text = link
          /\ IF row.apple
             THEN LET parsed == row.parsedMetadata
                  IN  IF ~parsed.ok
                      THEN /\ Reply(500, parsed.error)
                           /\ UNCHANGED <<target, parsedMetadata, lookups>>
                      ELSE \* extractMetadata: the lookup request
                           /\ parsedMetadata' = parsed.value
                           /\ target' = "spotify"
                           /\ lookups' = <<[api |-> "itunesLookup", id |-> parsed.value.id,
                                            country |-> parsed.value.region]>>
                           /\ stage' = "lookup"
                           /\ UNCHANGED response
             ELSE IF row.spotify
             THEN LET parsed == row.parsedSpotify
                  IN  IF ~parsed.ok
                      THEN /\ Reply(500, parsed.error)
                           /\ UNCHANGED <<target, parsedMetadata, lookups>>
                      ELSE \* getSpotifyDetailedMetadata: the credentials of the
                           \* environment, the token request
                           /\ parsedMetadata' = parsed.value
                           /\ target' = "apple"
                           /\ \E configured \in BOOLEAN :
                                IF ~configured
                                THEN /\ Reply(500, "Spotify API credentials missing")
                                     /\ UNCHANGED lookups
                                ELSE /\ lookups' = <<[api |-> "spotifyToken"]>>
                                     /\ stage' = "sourceToken"
                                     /\ UNCHANGED response
             ELSE /\ Reply(400, "Unsupported link type")
                  /\ UNCHANGED <<target, parsedMetadata, lookups>>
  /\ UNCHANGED <<sourceMetadata, pc>>
  /\ SearchFrame

\* the token request of getSpotifyDetailedMetadata returns or fails
SourceTokenReturn ==
  /\ stage = "sourceToken"
  /\ \E granted \in BOOLEAN :
       IF granted
       THEN /\ lookups' = Append(lookups, [api |-> "spotifyItem",
                                           type |-> parsedMetadata.type,
                                           id |-> parsedMetadata.id])
            /\ stage' = "lookup"
            /\ UNCHANGED response
       ELSE /\ Reply(500, "token request failed")
            /\ UNCHANGED lookups
  /\ UNCHANGED <<target, sourceMetadata, pc, parsedMetadata>>
  /\ SearchFrame

\* the source metadata is there: search...Content starts with its token request
StartSearch(metadata) ==
  /\ sourceMetadata' = metadata
  /\ pc' = "start"
  /\ stage' = "searching"
  /\ UNCHANGED response

\* the lookup of the source returns or fails
LookupReturn ==
  /\ stage = "lookup"
  /\ \/ /\ Reply(500, IF target = "spotify"
                      THEN "Failed to fetch metadata from Apple Music"
                      ELSE "request failed")
        /\ UNCHANGED <<sourceMetadata, pc>>
     \/ /\ target = "spotify"
        /\ LET results == ITunesResults(parsedMetadata.id)
           IN  IF Len(results) = 0
               THEN /\ Reply(500, "Failed to fetch metadata from Apple Music")
                    /\ UNCHANGED <<sourceMetadata, pc>>
               ELSE StartSearch(extractMetadata(parsedMetadata, results[1]))
     \/ /\ target = "apple"
        /\ \E item \in SpotifyObjects(parsedMetadata.type, parsedMetadata.id) :
             StartSearch(getSpotifyDetailedMetadata(parsedMetadata, item))
  /\ UNCHANGED <<target, parsedMetadata, lookups>>
  /\ SearchFrame

\* the metadata a search of this model can return for a source
MatchedMetadata(metadata) ==
  {mapSpotifyResponse(list[1], metadata).metadata :
     list \in {l \in SpotifyListsOf(metadata.type) : Len(l) = 1}}
  \cup {mapAppleMusicResponse(result) :
          result \in AppleCatalog \cup {AppleAlbumItem, AppleArtistItem}}

\* calculateMatchConfidence for every source and every matched metadata of
\* this model (evaluated once)
Confidences ==
  UNION {{[source |-> metadata, match |-> m,
           confidence |-> calculateMatchConfidence(metadata, m)] :
            m \in MatchedMetadata(metadata)} : metadata \in Sources \cup TypedSources}

\* the handler after search...Content: the confidence and the response, or
\* the catch block
Respond ==
  /\ stage = "searching"
  /\ pc = "done"
  /\ IF outcome.kind = "match"
     THEN \E row \in Confidences :
            /\ row.source = sourceMetadata
            /\ row.match = outcome.metadata
            /\ response' =
                 [status |-> 200,
                  conversionDirection |-> IF target = "spotify" THEN "apple-to-spotify"
                                          ELSE "spotify-to-apple",
                  source |-> sourceMetadata,
                  result |-> [url |-> outcome.url, metadata |-> outcome.metadata],
                  confidence |-> row.confidence]
     ELSE response' = [status |-> 500, error |-> outcome.kind]
  /\ stage' = "responded"
  /\ UNCHANGED <<target, sourceMetadata, pc, parsedMetadata, lookups>>
  /\ SearchFrame

ConvertNext ==
  \/ Receive
  \/ SourceTokenReturn
  \/ LookupReturn
  \/ GetToken
  \/ SearchFail
  \/ SearchReturn
  \/ Respond

ConvertSpec == ConvertInit /\ [][ConvertNext]_vars

\* every pending step of the request is eventually taken: each external call
\* returns or fails
FairConvertSpec == ConvertSpec /\ WF_vars(ConvertNext)

(***************************************************************************)
(* Conversion history of the frontend (LinkConverter component)            *)
(***************************************************************************)
\* submissions of the form in one visit of the page
MaxSubmissions == 3

\* prev.slice(0, 9): the entries kept below a new one
KeptEntries == 9

\* an entry of the history: a conversion response and its timestamp
HistoryItem(stamp, direction) ==
  [timestamp |-> stamp, conversionDirection |-> direction,
   spotifyResult |-> direction = "apple-to-spotify",
   appleMusicResult |-> direction = "spotify-to-apple"]

\* a saved history of n entries, the most recent first
SavedHistory(n) ==
  AsTuple([k \in 1..n |-> HistoryItem(n + 1 - k,
                                      IF k % 2 = 0 THEN "apple-to-spotify"
                                      ELSE "spotify-to-apple")])

\* a saved history with entries that lack a timestamp, a direction or a result
DamagedHistory ==
  <<HistoryItem(3, "apple-to-spotify"),
    HistoryItem(0, "apple-to-spotify"),
    HistoryItem(2, ""),
    [HistoryItem(2, "spotify-to-apple") EXCEPT !.appleMusicResult = FALSE],
    HistoryItem(1, "spotify-to-apple")>>

\* the cookie written by JSON.stringify(history)
SavedCookie(entries) == [kind |-> "array", items |-> entries]

\* values of the conversionHistory cookie when the page opens: none, text that
\* is not JSON, JSON that is not an array, and arrays of up to KeptEntries + 1
\* entries
Cookies ==
  {NoCookie, [kind |-> "text"], [kind |-> "object"], SavedCookie(DamagedHistory)}
  \cup {SavedCookie(SavedHistory(n)) : n \in 0..(KeptEntries + 1)}

\* parsedHistory.filter(item => item && item.timestamp && item.conversionDirection
\*                              && (item.spotifyResult || item.appleMusicResult))
validHistory(parsedHistory) ==
  SelectSeq(parsedHistory,
            LAMBDA entry : /\ entry.timestamp # 0
                           /\ entry.conversionDirection # ""
                           /\ (entry.spotifyResult \/ entry.appleMusicResult))

\* the effect that saves the history: a cookie is written for a non-empty history
SaveEffect(entries, saved) == IF Len(entries) > 0 THEN SavedCookie(entries) ELSE saved

\* the new entry alone above the whole previous history
PrependedWhole(prev, entry) == <<entry>> \o prev

\* [historyItem, ...prev.slice(0, 9)]
Prepended(prev, entry) ==
  <<entry>> \o SubSeq(prev, 1, IF Len(prev) < KeptEntries THEN Len(prev) ELSE KeptEntries)

\* the page opens: no conversion of the engine is modelled along with it
PageInit ==
  /\ target = "none"
  /\ sourceMetadata = NoMetadata
  /\ pc = "idle"
  /\ supplied = {}
  /\ tokenRequests = 0
  /\ queries = <<>>
  /\ qi = 0
  /\ calls = <<>>
  /\ responded = 0
  /\ lastError = NoError
  /\ lastFailed = 0
  /\ bestMatchSoFar = NoBest
  /\ items = <<>>
  /\ scored = <<>>
  /\ bestSeen = 0
  /\ accepted = {}
  /\ recovered = FALSE
  /\ matched = NoItem
  /\ outcome = Pending
  /\ link = NULL
  /\ stage = "idle"
  /\ parsedMetadata = NoMetadata
  /\ lookups = <<>>
  /\ response = NoResponse
  /\ call = NoCall
  /\ returned = NotReturned
  /\ history = <<>>
  /\ cookie \in Cookies
  /\ isLoading = FALSE
  /\ shown = NothingShown
  /\ submissions = 0
  /\ mounted = FALSE

\* what the component leaves alone: the engine
PageFrame ==
  UNCHANGED <<target, sourceMetadata, pc, supplied, tokenRequests, queries, qi, calls,
              responded, lastError, lastFailed, bestMatchSoFar, items, scored, bestSeen,
              accepted, recovered, matched, outcome, handlerVars, callVars>>

\* the effects of the first render: the history is loaded from the cookie, an
\* unreadable cookie is removed, and a loaded history is saved again
Mount ==
  /\ ~mounted
  /\ mounted' = TRUE
  /\ IF cookie.kind = "array"
     THEN /\ history' = validHistory(cookie.items)
          /\ cookie' = SaveEffect(validHistory(cookie.items), cookie)
     ELSE /\ history' = history
          /\ cookie' = IF cookie.kind = "text" THEN NoCookie ELSE cookie
  /\ UNCHANGED <<isLoading, shown, submissions>>
  /\ PageFrame

\* handleSubmit up to its fetch; the button is disabled while a submission loads
Submit ==
  /\ mounted
  /\ ~isLoading
  /\ submissions < MaxSubmissions
  /\ submissions' = submissions + 1
  /\ isLoading' = TRUE
  /\ shown' = NothingShown
  /\ UNCHANGED <<history, cookie, mounted>>
  /\ PageFrame

\* the response is ok: the result is shown and put on top of the history,
\* which is saved
ConversionSucceeds ==
  /\ isLoading
  /\ \E direction \in {"apple-to-spotify", "spotify-to-apple"} :
       LET historyItem == HistoryItem(KeptEntries + 1 + submissions, direction)
       IN  /\ shown' = [kind |-> "result", entry |-> historyItem]
           /\ history' = Prepended(history, historyItem)
           /\ cookie' = SaveEffect(Prepended(history, historyItem), cookie)
  /\ isLoading' = FALSE
  /\ UNCHANGED <<submissions, mounted>>
  /\ PageFrame

\* the request fails or the response is not ok: the error is shown
ConversionFails ==
  /\ isLoading
  /\ shown' = [kind |-> "error"]
  /\ isLoading' = FALSE
  /\ UNCHANGED <<history, cookie, submissions, mounted>>
  /\ PageFrame

\* clearHistory
ClearHistory ==
  /\ mounted
  /\ Len(history) > 0
  /\ history' = <<>>
  /\ cookie' = NoCookie
  /\ UNCHANGED <<isLoading, shown, submissions, mounted>>
  /\ PageFrame

PageNext ==
  \/ Mount
  \/ Submit
  \/ ConversionSucceeds
  \/ ConversionFails
  \/ ClearHistory

PageSpec == PageInit /\ [][PageNext]_vars

(***************************************************************************)
(* Properties of the Match Selector and of the credentials                 *)
(***************************************************************************)
\* a match was returned although some generated query was never searched
EarlyMatch == outcome.kind = "match" /\ responded < Len(queries)

\* the search loop was entered and the function has returned or thrown
LoopOver == pc = "done" /\ outcome.kind \in {"match", "noMatch", "searchError"}

\* the greatest match score among the items of the most recent response
LastTop == MaxScore(target, items, sourceMetadata)

AcceptanceFloor == IF target = "apple" THEN Hundredths(60) ELSE Hundredths(30)

\* C2: for every response with results every returned candidate is scored
\* before the selection is made, and a running best match is carried over
\* all queries tried so far (a candidate of an earlier query above the
\* acceptance threshold is not forgotten), in both flows, with or without
\* an ISRC.
C2_AllScoredAndBestCarried ==
  /\ Len(items) > 0 => Len(scored) = Len(items)
  /\ (LoopOver /\ bestSeen > AcceptanceFloor) => outcome.kind = "match"

\* C3: a match is returned only when the chosen candidate's score exceeds
\* the acceptance threshold of the flow; if no candidate of any query
\* exceeds it, the conversion fails instead of returning a match.
C3_MatchOnlyAboveFloor ==
  /\ outcome.kind = "match" => Score(target, matched, sourceMetadata) > AcceptanceFloor
  /\ (LoopOver /\ bestSeen <= AcceptanceFloor) => outcome.kind # "match"

\* the step in which the request for queries[qi] fails
FailStep == pc = "waiting" /\ lastFailed' = qi /\ responded' = responded + 1

C6_CallsArePrefixOfQueries ==
  /\ Len(calls) <= Len(queries)
  /\ calls = SubSeq(queries, 1, Len(calls))
  /\ \A a, b \in 1..Len(calls) : a # b => calls[a] # calls[b]
  /\ Len(calls) = responded + (IF pc = "waiting" THEN 1 ELSE 0)
  /\ outcome.kind = "match" => pc = "done" /\ Len(calls) = responded

\* a second search was issued after the first one returned or failed
C6_SecondCallIssued == Len(calls) >= 2 /\ responded >= 1 /\ target = "apple"

\* the environment supplied every credential of the target platform
AllSupplied == supplied = Range(CredentialNames(target))

\* C7: if the credential provider cannot supply the credentials of the
\* target platform, the conversion fails with a credentials error before any
\* search call is issued, the token being asked for once.
C7_NoSearchWithoutCredentials ==
  (pc # "start" /\ ~AllSupplied) =>
     /\ pc = "done"
     /\ outcome.kind \in {"credentialsMissing", "secretFailed"}
     /\ calls = <<>>
     /\ responded = 0
     /\ tokenRequests = 1

\* a conversion failed because a credential was not supplied
C7_CredentialsMissing ==
  /\ pc = "done"
  /\ ~AllSupplied
  /\ supplied # {}
  /\ outcome.kind = "credentialsMissing"

\* C8: converting a track with title T and artist A (ISRC known or not):
\* when a Spotify response holds the candidate with title T by A and a
\* same-title candidate by "A Tribute", the selector returns the one by A,
\* whatever the order of the list.
C8_OriginalOverTribute ==
  (/\ target = "spotify"
   /\ SpotifyOriginal \in Range(items)
   /\ SpotifyTribute \in Range(items)) =>
     /\ outcome.kind = "match"
     /\ matched = SpotifyOriginal

\* positions of the decent matches (score > 0.5) in the sorted array
DecentPositions == {k \in 1..Len(scored) : scored[k].score > Hundredths(50)}

\* C9: in findBestMatch (scoring path), when the top-ranked candidate does
\* not exceed 0.8, among the candidates with score > 0.5 a candidate by the
\* source artist is returned if there is one, even when another candidate
\* has a higher score; otherwise the most popular of them is returned.
C9_DecentMatchPreference ==
  (/\ target = "spotify"
   /\ Len(scored) > 0
   /\ scored[1].score <= Hundredths(80)
   /\ DecentPositions # {}) =>
     /\ outcome.kind = "match"
     /\ \E k \in DecentPositions : scored[k].item = matched
     /\ IF \E k \in DecentPositions : scored[k].original
        THEN IsOriginalArtist(matched, sourceMetadata)
        ELSE \A k \in DecentPositions : scored[k].popularity <= PopularityOf(matched)

\* a decent candidate by the source artist was returned although another
\* decent candidate has a higher score
C9_OriginalOverHigherScore ==
  /\ target = "spotify"
  /\ Len(scored) > 0
  /\ scored[1].score <= Hundredths(80)
  /\ outcome.kind = "match"
  /\ IsOriginalArtist(matched, sourceMetadata)
  /\ \E k \in DecentPositions :
       scored[k].score > calculateMatchScore(matched, sourceMetadata)

\* C10: for track/album scoring the score of a candidate flagged by
\* isTributeBand is at most 0.1 times the score the same candidate receives
\* without the flag (the penalty applies to the sum of all field weights).
C10_PenaltyOnTotal ==
  \A k \in 1..Len(scored) :
     (target = "spotify" /\ AnyTributeArtist(scored[k].item, sourceMetadata)) =>
        scored[k].score <= JSTimesTenth(TrackOrAlbumScore(scored[k].item, sourceMetadata, FALSE))

(***************************************************************************)
(* Properties of the scorers                                               *)
(***************************************************************************)
\* a call of the Spotify-target scorer for a track or an album has returned
SpotifyTrackScored ==
  /\ call.fn = "calculateMatchScore"
  /\ call.platform = "spotify"
  /\ returned.done
  /\ call.metadata.type # "artist"

\* the artists the source credit names, and the artists the candidate lists
CreditedNames(m) ==
  {n \in Range(MapCleanNames(splitOnClass(m.artist, {",", "&"}))) : Len(n) > 0}
ListedNames(i) ==
  IF i.artists = NoArtists THEN {} ELSE {cleanText(i.artists[k]) : k \in 1..Len(i.artists)}

\* an artist credit no candidate of the model shares a name with
UnrelatedCredit == <<"Q", "q">>

\* the part of a returned score that is due to the artist comparison, in
\* multiples of 1/300
ArtistWeight ==
  Exact(returned.value)
    - Exact(calculateMatchScore(call.item, [call.metadata EXCEPT !.artist = UnrelatedCredit]))

\* C11: the scorer awards the full artist weight (0.4) whenever candidate and
\* source name the same set of artists, in whatever order either side lists
\* them.
C11_ArtistOrderIrrelevant ==
  (SpotifyTrackScored /\ ListedNames(call.item) = CreditedNames(call.metadata)) =>
     ArtistWeight >= Exact(Hundredths(40))

\* title and artist of candidate and source are identical after the cleaning
\* the scorer applies, and the candidate is not tribute-flagged
IdenticalTitleAndArtist ==
  IF call.platform = "spotify"
  THEN IF call.metadata.type = "artist"
       THEN /\ cleanText(call.item.name) = cleanText(call.metadata.artist)
            /\ ~isTributeBand(cleanText(call.item.name), cleanText(call.metadata.artist))
       ELSE /\ cleanText(call.item.name) = cleanText(call.metadata.title)
            /\ normalizeArtistName(ArtistNamesJoined(call.item))
                 = normalizeArtistName(call.metadata.artist)
            /\ ~AnyTributeArtist(call.item, call.metadata)
  ELSE CASE call.metadata.type = "track" ->
              /\ normalizeTitle(call.item.name) = normalizeTitle(call.metadata.title)
              /\ appleCleanText(call.item.artistName) = appleCleanText(call.metadata.artist)
         [] call.metadata.type = "album" ->
              /\ appleCleanText(call.item.name) = appleCleanText(call.metadata.title)
              /\ appleCleanText(call.item.artistName) = appleCleanText(call.metadata.artist)
         [] OTHER ->
              appleCleanText(call.item.name) = appleCleanText(call.metadata.artist)

ConfidenceReturned == call.fn = "calculateMatchConfidence" /\ returned.done

\* both sides carry an ISRC and the two are equal
BothIsrcEqual ==
  /\ call.source.isrc \notin {NULL, <<>>}
  /\ call.match.isrc \notin {NULL, <<>>}
  /\ call.source.isrc = call.match.isrc

\* C13: calculateMatchConfidence returns exactly 100 whenever both sides
\* carry an ISRC and the two are equal, whatever title, artist and album are
\* on either side (missing or different).
C13_EqualIsrcIsHundred ==
  (ConfidenceReturned /\ BothIsrcEqual) => returned.value = 100

\* equal ISRCs gave 100 although the titles differ and an artist is missing
C13_HundredDespiteDivergence ==
  /\ ConfidenceReturned
  /\ BothIsrcEqual
  /\ call.match.title = OtherText
  /\ call.source.artist = NULL
  /\ returned.value = 100

\* field f is present (non-empty) on both sides; its similarity in hundredths
PresentOnBoth(f) == call.source[f] \notin {NULL, <<>>} /\ call.match[f] \notin {NULL, <<>>}
SimilarityOf(f) == calculateStringSimilarity(call.source[f], call.match[f])

\* the quotient n / d rounded to the nearest integer, halves upwards
HalfUp(n, d) == (2 * n + d) \div (2 * d)

\* C14 (as stated): when the matched side has no album (title and artist
\* present on both sides) the confidence equals
\* round(100 * (40 * simTitle + 40 * simArtist) / 80).
C14_MissingAlbumExcluded ==
  (/\ ConfidenceReturned
   /\ PresentOnBoth("title")
   /\ PresentOnBoth("artist")
   /\ call.match.album \in {NULL, <<>>}) =>
     returned.value = HalfUp(40 * SimilarityOf("title") + 40 * SimilarityOf("artist"), 80)

\* weight of field f in numerator and denominator
NumeratorOf(f, w) == IF PresentOnBoth(f) THEN w * SimilarityOf(f) ELSE 0
DenominatorOf(f, w) == IF PresentOnBoth(f) THEN w ELSE 0

\* C14 (amended): unless both sides carry the same ISRC (the confidence is
\* then 100), a field contributes only if present on both sides, with its
\* weight in numerator and denominator; when the matched side has no album
\* and title and artist are present the confidence is
\* round(100 * (40 * simTitle + 40 * simArtist) / 80).
C14_PresentFieldsOnly ==
  (ConfidenceReturned /\ ~BothIsrcEqual) =>
     /\ LET n == NumeratorOf("title", 40) + NumeratorOf("artist", 40) + NumeratorOf("album", 20)
            d == DenominatorOf("title", 40) + DenominatorOf("artist", 40)
                   + DenominatorOf("album", 20)
        IN  returned.value = IF d > 0 THEN HalfUp(n, d) ELSE 0
     /\ (/\ PresentOnBoth("title")
         /\ PresentOnBoth("artist")
         /\ call.match.album \in {NULL, <<>>}) =>
           returned.value
             = HalfUp(40 * SimilarityOf("title") + 40 * SimilarityOf("artist"), 80)

\* the source has an album and the match has none: the confidence is that of
\* title (0.95) and artist (0.5) alone, 72.5 rounded to 73
C14_AlbumMissingOnMatch ==
  /\ ConfidenceReturned
  /\ ~BothIsrcEqual
  /\ call.source.album = AlbumL
  /\ call.match.album = NULL
  /\ SimilarityOf("title") = 95
  /\ SimilarityOf("artist") = 50
  /\ returned.value = 73

(***************************************************************************)
(* Properties of the query generators                                      *)
(***************************************************************************)
\* C17: for track source metadata with a known ISRC the first query the
\* generator produces is exactly "isrc:<code>", ahead of every title/artist
\* query, in the generator of each target flow.
C17_IsrcQueryFirst ==
  (/\ Len(queries) > 0
   /\ sourceMetadata.type = "track"
   /\ TruthyStr(sourceMetadata.isrc)) =>
     queries[1] = LitIsrc \o sourceMetadata.isrc

StripReturned == call.fn = "stripVersionInfo" /\ returned.done

\* C18: stripVersionInfo is idempotent for every input string: stripping the
\* stripped title again gives the stripped title
C18_StripIdempotent ==
  StripReturned => stripVersionInfo(returned.value) = returned.value

\* the branch of the handler the link takes
AppleBranch == link # NULL /\ includes(link, LitAppleHost)
SpotifyBranch ==
  link # NULL /\ ~includes(link, LitAppleHost) /\ includes(link, LitSpotifyHost)

HostIs(host) == URL(link).ok /\ URL(link).host = host
SegmentCount == IF URL(link).ok THEN Len(PathParts(URL(link))) ELSE 0

\* the host is not the platform domain, or path segments are absent
InvalidAppleLink == AppleBranch /\ (~HostIs(LitAppleHost) \/ SegmentCount < 4)
InvalidSpotifyLink == SpotifyBranch /\ (~HostIs(LitSpotifyHost) \/ SegmentCount < 2)

\* C15: a link whose host is not the platform domain or whose required path
\* segments are absent is rejected with an error: no parsed link is returned
\* and no external call is made
C15_InvalidLinkRejected ==
  (stage # "received" /\ (InvalidAppleLink \/ InvalidSpotifyLink)) =>
    /\ parsedMetadata = NoMetadata
    /\ lookups = <<>>
    /\ response.status >= 400

\* the value of the query parameter i of the link, null without one
TrackParameter ==
  IF AppleBranch /\ URL(link).ok THEN searchParamsGet(URL(link), <<"i">>) ELSE NULL

\* the parsed Apple Music link is a track with the given id, its region the
\* first path segment
ParsedAsTrack(id) ==
  /\ parsedMetadata.type = "track"
  /\ parsedMetadata.id = id
  /\ parsedMetadata.region = ElementAt(PathParts(URL(link)), 1)

\* C16 as stated: an Apple Music link with a query parameter i parses to a
\* track whose id is the value of i and whose region is the first path segment
C16_TrackParameterWins ==
  (parsedMetadata # NoMetadata /\ TrackParameter # NULL) => ParsedAsTrack(TrackParameter)

\* C16: an Apple Music link with a non-empty query parameter i parses to a
\* track whose id is the value of i and whose region is the first path
\* segment, whatever the path segments say
C16_NonEmptyTrackParameterWins ==
  (parsedMetadata # NoMetadata /\ TruthyStr(TrackParameter)) => ParsedAsTrack(TrackParameter)

\* an album path with an album id and a track parameter, parsed
C16_TrackOverAlbumPath ==
  /\ parsedMetadata # NoMetadata
  /\ TruthyStr(TrackParameter)
  /\ TypeLabel(ElementAt(PathParts(URL(link)), 2)) = "album"
  /\ ElementAt(PathParts(URL(link)), SegmentCount) # TrackParameter
  /\ ParsedAsTrack(TrackParameter)

\* the content type a search request asks for: Spotify takes the label itself,
\* Apple Music a resource type
RequestedContentType ==
  IF target = "spotify" THEN SearchTypes(target, sourceMetadata)
  ELSE IF SearchTypes(target, sourceMetadata) = "songs" THEN "track"
  ELSE IF SearchTypes(target, sourceMetadata) = "albums" THEN "album"
  ELSE "artist"

\* C19: within one conversion the type of the parsed link, of the fetched
\* source metadata, of the search requested from the target platform and of
\* the matched metadata returned are all equal, in both directions
C19_TypeConsistent ==
  /\ sourceMetadata # NoMetadata => sourceMetadata.type = parsedMetadata.type
  /\ Len(calls) > 0 => RequestedContentType = parsedMetadata.type
  /\ outcome.kind = "match" => outcome.metadata.type = parsedMetadata.type
  /\ response.status = 200 =>
       /\ response.source.type = parsedMetadata.type
       /\ response.result.metadata.type = parsedMetadata.type

\* an album link of Spotify converted to an album of Apple Music
C19_AlbumConverted ==
  /\ response.status = 200
  /\ target = "apple"
  /\ parsedMetadata.type = "album"
  /\ response.result.metadata.type = "album"

\* the request has its response: a result or an error
Completed == stage = "responded" /\ response.status \in {200, 400, 500}

\* C20: when every external call eventually returns or fails, every
\* conversion eventually completes, with exactly one outcome (a result or an
\* error, never replaced), and at no time more search calls are issued than
\* queries were generated
C20_CompletesOnce ==
  /\ <>Completed
  /\ [](response # NoResponse => Completed)
  /\ [][response # NoResponse => response' = response]_vars
  /\ [](Len(calls) <= Len(queries))

\* a conversion that completed with a result after a call for every query
C20_ResultAfterAllQueries ==
  /\ Completed
  /\ response.status = 200
  /\ Len(queries) > 1
  /\ Len(calls) = Len(queries)

\* a conversion towards Spotify whose source has an ISRC
SpotifyWithIsrc == target = "spotify" /\ TruthyStr(sourceMetadata.isrc)

\* C21: towards Spotify, when the source has an ISRC, the first non-empty
\* response ends the search and its first item is the match, whichever query
\* produced it; nothing is scored
C21_FirstItemWithIsrc ==
  SpotifyWithIsrc =>
    /\ scored = <<>>
    /\ Len(items) > 0 => (outcome.kind = "match" /\ matched = items[1])
    /\ outcome.kind = "match" => Len(items) > 0

\* a tribute returned as the first item of the response to a later query
C21_TributeFromLaterQuery ==
  /\ SpotifyWithIsrc
  /\ outcome.kind = "match"
  /\ qi > 1
  /\ Len(items) = 2
  /\ matched = SpotifyTribute
  /\ isTributeBand(matched.artists[1], sourceMetadata.artist)

\* calculateMatchScore returned for track content
TrackScoreReturned ==
  call.fn = "calculateMatchScore" /\ returned.done /\ call.metadata.type = "track"

\* the candidate is by an unrelated artist and has no album, duration or ISRC:
\* its score is the contribution of the title
TitleAlone ==
  call.item \in {SpotifyByTitle(name) : name \in TitleVariants}
                  \cup {AppleByTitle(name) : name \in TitleVariants}

\* 0.4 for equal cleaned titles, 0.3 for titles equal only after
\* feature-stripping, 0.2 for containment, 0 otherwise
TitlePartOf(cleanedItem, cleanedSource, strippedItem, strippedSource) ==
  IF cleanedItem = cleanedSource THEN Hundredths(40)
  ELSE IF strippedItem = strippedSource THEN Hundredths(30)
  ELSE IF includes(cleanedItem, cleanedSource) \/ includes(cleanedSource, cleanedItem)
       THEN Hundredths(20)
       ELSE 0

\* the title contribution as stated, with the cleaning of each scorer
StatedTitlePart ==
  IF call.platform = "spotify"
  THEN TitlePartOf(cleanText(call.item.name), cleanText(call.metadata.title),
                   removeFeaturingArtists(cleanText(call.item.name)),
                   removeFeaturingArtists(cleanText(call.metadata.title)))
  ELSE TitlePartOf(normalizeTitle(call.item.name), normalizeTitle(call.metadata.title),
                   appleRemoveFeaturingArtists(normalizeTitle(call.item.name)),
                   appleRemoveFeaturingArtists(normalizeTitle(call.metadata.title)))

\* C22: for track content, in both scorers, the title contributes 0.4 when the
\* cleaned titles are equal, 0.3 when they are equal only after
\* feature-stripping, 0.2 when one contains the other, and 0 otherwise
C22_TitleContribution ==
  (TrackScoreReturned /\ TitleAlone) => returned.value = StatedTitlePart

\* the same statement for the Spotify scorer alone
C22_SpotifyTitleContribution ==
  (TrackScoreReturned /\ TitleAlone /\ call.platform = "spotify") =>
     returned.value = StatedTitlePart

\* calculateMatchScore returned for artist content
ArtistScoreReturned ==
  call.fn = "calculateMatchScore" /\ returned.done /\ call.metadata.type = "artist"

\* the genres of the candidate
GenresOfItem ==
  IF call.platform = "spotify" THEN call.item.genres ELSE call.item.genreNames

\* the cleaned names of the candidate and of the source
CleanedNames ==
  IF call.platform = "spotify"
  THEN <<cleanText(call.item.name), cleanText(call.metadata.artist)>>
  ELSE <<appleCleanText(call.item.name), appleCleanText(call.metadata.artist)>>

\* 0.8 for equal names, 0.4 for containment, in units of 1/300
StatedNamePart ==
  IF CleanedNames[1] = CleanedNames[2] THEN 240
  ELSE IF includes(CleanedNames[1], CleanedNames[2]) \/ includes(CleanedNames[2], CleanedNames[1])
       THEN 120
       ELSE 0

\* 0.2 times the share of common genres, in units of 1/300
StatedGenrePart ==
  IF GenresOfItem = NULL \/ call.metadata.genres = NULL THEN 0
  ELSE (60 * CountIn(GenresOfItem, call.metadata.genres))
          \div Max(Len(GenresOfItem), Len(call.metadata.genres))

\* the candidate is not flagged as a tribute act (the Apple scorer flags none)
Untagged ==
  call.platform = "spotify" => ~isTributeBand(CleanedNames[1], CleanedNames[2])

\* C23: for artist content, in both scorers, the name contributes 0.8 when
\* equal and 0.4 when one contains the other, and the genre bonus is 0.2 times
\* the share of common genres
C23_ArtistContribution ==
  (ArtistScoreReturned /\ Untagged) =>
     Exact(returned.value) = StatedNamePart + StatedGenrePart

\* the same statement for the Apple Music scorer alone
C23_AppleArtistContribution ==
  (ArtistScoreReturned /\ call.platform = "apple") =>
     Exact(returned.value) = StatedNamePart + StatedGenrePart

\* generateSearchQueries returned for a track whose title carries a version tag
TaggedQueriesReturned ==
  /\ call.fn = "generateSearchQueries"
  /\ returned.done
  /\ call.metadata.type = "track"
  /\ call.metadata.title \in VersionTitles

\* track:"<title>" artist:"<artist>" for the artist of the call
TitleArtistQuery(title) ==
  LitTrackQ \o title \o LitQArtistQ \o normalizeArtistName(call.metadata.artist) \o QUOTE

\* an album query, or the loose query that names no field
AlbumOrLooseQuery(query) ==
  \/ includes(query, LitQAlbumQ)
  \/ ~MatchesAt(query, 1, LitTrackQ) /\ ~MatchesAt(query, 1, LitIsrc)

\* C24: for a track whose title carries a parenthesized or bracketed version
\* tag, the Spotify-target query generator emits a title+artist query without
\* the tag, after the full-title query and before the album and loose queries
C24_VersionStrippedQuery ==
  TaggedQueriesReturned =>
    \E k \in 1..Len(returned.value) :
       /\ returned.value[k] = TitleArtistQuery(cleanText(stripVersionInfo(call.metadata.title)))
       /\ \E j \in 1..(k - 1) :
            returned.value[j] = TitleArtistQuery(cleanText(call.metadata.title))
       /\ \A j \in 1..Len(returned.value) : AlbumOrLooseQuery(returned.value[j]) => j > k

\* for such a title every title+artist query emitted still names the words of the tag
C24_TagKeptInEveryQuery ==
  TaggedQueriesReturned =>
    \A k \in 1..Len(returned.value) :
       MatchesAt(returned.value[k], 1, LitTrackQ) =>
          MatchesAt(returned.value[k], 1, LitTrackQ \o cleanText(call.metadata.title))

\* the content types a ParsedLink may carry
ContentTypes == {"track", "album", "artist"}

\* C25: every ParsedLink returned by parseAppleMusicLink or parseSpotifyLink
\* has a contentType among track, album, artist; a link whose type segment is
\* anything else yields no ParsedLink, so none reaches the metadata fetcher
C25_SupportedContentType ==
  /\ parsedMetadata # NoMetadata => parsedMetadata.type \in ContentTypes
  /\ lookups # <<>> => parsedMetadata.type \in ContentTypes

\* the links whose type segment is track, album or artist parse to that type
C25_SupportedTypesKept ==
  (parsedMetadata # NoMetadata /\ link \in {AppleAlbumLink, AppleArtistLink, SpotifyTrackLink,
                                            SpotifyAlbumLink, SpotifyArtistLink}) =>
     parsedMetadata.type \in ContentTypes

\* the Apple Music selector returned a match
AppleMatchReturned == target = "apple" /\ pc = "done" /\ outcome.kind = "match"

\* C26: in the Apple-Music-target selector, whenever a match is returned, by
\* the short-circuit above 0.8 or after all queries, its score is the greatest
\* score of all candidates scored so far in that conversion, over all queries
C26_ReturnedScoreIsMaximum ==
  AppleMatchReturned =>
    /\ Score("apple", matched, sourceMetadata) = bestSeen
    /\ matched = bestMatchSoFar.result

\* a match returned after the last query that an earlier response had brought,
\* the last response holding lower-scored candidates only
C26_BestOfEarlierQuery ==
  /\ AppleMatchReturned
  /\ qi > Len(queries)
  /\ Len(items) > 0
  /\ \A k \in 1..Len(items) : items[k] # matched
  /\ MaxScore("apple", items, sourceMetadata) < bestSeen

\* a conversion towards Spotify whose source has no ISRC
SpotifyWithoutIsrc ==
  target = "spotify" /\ sourceMetadata # NoMetadata /\ ~TruthyStr(sourceMetadata.isrc)

\* calculateMatchScore flags the candidate as a tribute act
Flagged(item) ==
  IF sourceMetadata.type = "artist"
  THEN isTributeBand(cleanText(item.name), cleanText(sourceMetadata.artist))
  ELSE AnyTributeArtist(item, sourceMetadata)

\* the greatest score of a flagged candidate: 0.12 for artists, 0.28 otherwise
FlaggedCeiling ==
  IF sourceMetadata.type = "artist" THEN Hundredths(12) ELSE Hundredths(28)

\* C27: in the Spotify-target selector, when the source has no ISRC, a
\* candidate flagged by isTributeBand is never returned: its penalised score is
\* at most 0.28 for track and album content and at most 0.12 for artist
\* content, below the floor of 0.3
C27_TributeNeverReturned ==
  SpotifyWithoutIsrc =>
    /\ \A k \in 1..Len(scored) :
         Flagged(scored[k].item) =>
           scored[k].score <= FlaggedCeiling /\ scored[k].score < MinimumScore
    /\ outcome.kind = "match" => ~Flagged(matched)

\* the only candidate of the last response to a search for an artist was a
\* tribute act, and no match was returned
C27_TributeArtistRefused ==
  /\ SpotifyWithoutIsrc
  /\ sourceMetadata.type = "artist"
  /\ pc = "done"
  /\ outcome.kind = "noMatch"
  /\ Len(scored) = 1
  /\ Flagged(scored[1].item)

\* the handler answered with a conversion in the given direction
Converted(direction) ==
  response.status = 200 /\ response.conversionDirection = direction

\* the confidence of title, artist and album alone
TextConfidence(source, match) ==
  calculateMatchConfidence([source EXCEPT !.isrc = NULL], match)

\* C28: from Apple Music to Spotify the matched metadata never carries an ISRC
\* and the confidence comes from title, artist and album only, even for a match
\* of the isrc: query; from Spotify to Apple Music the matched track metadata
\* carries the ISRC of the candidate
C28_IsrcOnlyTowardsApple ==
  /\ Converted("apple-to-spotify") =>
       /\ response.result.metadata.isrc = NULL
       /\ response.confidence = TextConfidence(response.source, response.result.metadata)
  /\ (Converted("spotify-to-apple") /\ response.result.metadata.type = "track") =>
       response.result.metadata.isrc = matched.isrc

\* the first item of the response to the isrc: query was returned, and its
\* confidence is below 100
C28_IsrcQueryMatchBelowHundred ==
  /\ Converted("apple-to-spotify")
  /\ TruthyStr(response.source.isrc)
  /\ Len(calls) = 1
  /\ MatchesAt(calls[1], 1, LitIsrc)
  /\ response.confidence < 100

\* the fields the confidence compares
ComparedFields == {"title", "artist", "album"}

\* C29: calculateMatchConfidence returns an integer in 0..100; when a field
\* among title, artist, album is present on both sides the result is at least
\* 50, each field similarity being 1, 0.95 or 0.5; 0 is returned only when no
\* field is comparable and the ISRCs are not both present and equal
C29_ConfidenceRange ==
  ConfidenceReturned =>
    /\ returned.value \in 0..100
    /\ \A f \in ComparedFields :
         PresentOnBoth(f) => SimilarityOf(f) \in {100, 95, 50} /\ returned.value >= 50
    /\ returned.value = 0 =>
         ~BothIsrcEqual /\ \A f \in ComparedFields : ~PresentOnBoth(f)

\* the title alone is comparable, the two titles differ, and the confidence is 50
C29_LowestComparable ==
  /\ ConfidenceReturned
  /\ PresentOnBoth("title")
  /\ ~PresentOnBoth("artist")
  /\ ~PresentOnBoth("album")
  /\ ~BothIsrcEqual
  /\ returned.value = 50

\* a submission of the form got its response in this step
Settles == isLoading /\ ~isLoading'

\* C30: starting from a history of at most 10 entries, the history never holds
\* more than 10 entries; after a successful conversion the new entry is first
\* and the older entries follow in their order; a failed conversion leaves the
\* history unchanged
C30_HistoryCapped ==
  /\ [](Len(history) <= KeptEntries + 1)
  /\ [][(Settles /\ shown'.kind = "result") =>
          /\ history'[1] = shown'.entry
          /\ Tail(history') = SubSeq(history, 1, Len(history') - 1)
          /\ Len(history') >= 1
          /\ Len(history) <= KeptEntries => Len(history') = Len(history) + 1]_vars
  /\ [][(Settles /\ shown'.kind = "error") => history' = history]_vars

\* a successful conversion on a full history: the new entry is first of ten
\* and the oldest entry is gone
C30_OldestDropped ==
  /\ Len(history) = KeptEntries + 1
  /\ shown.kind = "result"
  /\ history[1] = shown.entry
  /\ history[1].timestamp = KeptEntries + 2
  /\ history[Len(history)].timestamp = 2

====
